---------------------------- MODULE Spec2Model ----------------------------
(***************************************************************************)
(* Model of the enhanced_todo_cli core: the Task entity, the two task      *)
(* repositories (the in-memory MockTaskRepository and the                  *)
(* PostgresTaskRepository), the TaskService on top of them, and the        *)
(* AuthService with its session file.                                      *)
(*                                                                         *)
(* Conventions                                                             *)
(*  - Option<T>: None is <<>>, Some(x) is <<x>>.                           *)
(*  - String: a sequence of one-character strings.                         *)
(*  - Result<T,E>: Ok(v) is [ok |-> TRUE, val |-> v], Err(e) is            *)
(*    [ok |-> FALSE, err |-> e].                                           *)
(*  - Utc::now() is the variable now; one handler runs at one instant.     *)
(*  - Uuid::new_v4() is a fresh number taken from a counter.               *)
(*  - Vec<Task> results of the find/search queries are modelled as sets    *)
(*    (their order is the store's, which no handler depends on).           *)
(*  - The task repositories' database is reachable.  The calls of the     *)
(*    auth side take two flags, db and io: whether the users database      *)
(*    fails the queries of the call, and whether the file system refuses   *)
(*    to create or remove the session file during it.                      *)
(***************************************************************************)
EXTENDS Integers, Sequences, FiniteSets, TLC

VARIABLES
    backend,    \* which TaskRepository the TaskService was built with
    tasks,      \* the task store: task id -> Task
    next_id,    \* next fresh task Uuid
    now,        \* Utc::now()
    ticks,      \* number of clock advances so far
    task,       \* a free-standing Task object (Option<Task>), for the entity methods
    last,       \* the last call made and what it returned
    users,      \* the users table: user id -> User
    next_user_id, \* next fresh user Uuid
    files,      \* the session directory: file name -> content
    jwt_secret, \* the secret the running AuthService was constructed with
    minted,     \* number of tokens minted so far (source of fresh jti values)
    issued,     \* the tokens callers have been handed so far
    cli         \* the CLI processes running side by side: what each holds in memory

auth_vars == <<users, next_user_id, files, jwt_secret, minted, issued, cli>>

vars == <<backend, tasks, next_id, now, ticks, task, last, auth_vars>>

----------------------------------------------------------------------------
(* Bounds *)

MaxTasks == 2

MaxTicks == 1

MaxBulk == 2

----------------------------------------------------------------------------
(* Option and Result *)

None == <<>>

Some(x) == <<x>>

IsSome(o) == o /= <<>>

Unwrap(o) == o[1]

Ok(v) == [ok |-> TRUE, val |-> v]

Err(e) == [ok |-> FALSE, err |-> e]

----------------------------------------------------------------------------
(* Strings *)

Str_Ab == <<"A", "b">>

Str_b == <<"b">>

Str_b_padded == <<" ", "b", " ">>

Str_aB == <<"a", "B">>

Str_blank == <<" ">>

Str_empty == <<>>

Str_underscore == <<"_">>

TITLE_MAX == 255

DESCRIPTION_MAX == 1000

Str_long == [i \in 1..(TITLE_MAX + 1) |-> "x"]

lower_char(c) ==
    IF c = "A" THEN "a" ELSE IF c = "B" THEN "b" ELSE c

to_lowercase(s) == [i \in 1..Len(s) |-> lower_char(s[i])]

contains(s, sub) ==
    \E i \in 0..(Len(s) - Len(sub)) : SubSeq(s, i + 1, i + Len(sub)) = sub

RECURSIVE trim_start(_)
trim_start(s) ==
    IF s /= <<>> /\ Head(s) = " " THEN trim_start(Tail(s)) ELSE s

RECURSIVE trim_end(_)
trim_end(s) ==
    IF s /= <<>> /\ s[Len(s)] = " " THEN trim_end(SubSeq(s, 1, Len(s) - 1)) ELSE s

trim(s) == trim_end(trim_start(s))

RECURSIVE like_match(_, _)
like_match(p, s) ==
    IF p = <<>> THEN s = <<>>
    ELSE IF Head(p) = "%"
         THEN like_match(Tail(p), s) \/ (s /= <<>> /\ like_match(p, Tail(s)))
         ELSE /\ s /= <<>>
              /\ (Head(p) = "_" \/ Head(p) = Head(s))
              /\ like_match(Tail(p), Tail(s))

ilike_contains(s, term) ==
    like_match(<<"%">> \o to_lowercase(term) \o <<"%">>, to_lowercase(s))

----------------------------------------------------------------------------
(* models/task.rs *)

Pending == "Pending"

InProgress == "InProgress"

Completed == "Completed"

TaskStatus == {Pending, InProgress, Completed}

Low == "Low"

Medium == "Medium"

High == "High"

TaskPriority == {Low, Medium, High}

ValidationError == [kind |-> "ValidationError"]

validate_title(title) == trim(title) /= <<>>

StoreTaskRequest_validate(request) ==
    /\ Len(request.title) >= 1
    /\ Len(request.title) <= TITLE_MAX
    /\ validate_title(request.title)
    /\ (IsSome(request.description) => Len(Unwrap(request.description)) <= DESCRIPTION_MAX)

UpdateTaskRequest_validate(request) ==
    /\ (IsSome(request.title) =>
            /\ Len(Unwrap(request.title)) >= 1
            /\ Len(Unwrap(request.title)) <= TITLE_MAX)
    /\ (IsSome(request.description) => Len(Unwrap(request.description)) <= DESCRIPTION_MAX)

\* Faulty variant of Task_new: the priority asked for is dropped and the
\* default, Medium, is stored.
Task_new_default_priority(request, user_id, id, t) ==
    IF ~StoreTaskRequest_validate(request) THEN Err(ValidationError)
    ELSE Ok([id |-> id,
             title |-> trim(request.title),
             description |-> IF IsSome(request.description)
                             THEN Some(trim(Unwrap(request.description)))
                             ELSE None,
             status |-> request.status,
             priority |-> Medium,
             user_id |-> user_id,
             created_at |-> t,
             updated_at |-> t,
             due_date |-> request.due_date,
             completed_at |-> IF request.status = Completed THEN Some(t) ELSE None])

Task_new(request, user_id, id, t) ==
    IF ~StoreTaskRequest_validate(request) THEN Err(ValidationError)
    ELSE Ok([id |-> id,
             title |-> trim(request.title),
             description |-> IF IsSome(request.description)
                             THEN Some(trim(Unwrap(request.description)))
                             ELSE None,
             status |-> request.status,
             priority |-> request.priority,
             user_id |-> user_id,
             created_at |-> t,
             updated_at |-> t,
             due_date |-> request.due_date,
             completed_at |-> IF request.status = Completed THEN Some(t) ELSE None])

uncomplete(self, t) ==
    IF self.status = Completed
    THEN [self EXCEPT !.status = Pending, !.completed_at = None, !.updated_at = t]
    ELSE self

\* Faulty variant of complete: a task in progress is completed too.
complete_from_any_open(self, t) ==
    IF self.status /= Completed
    THEN [self EXCEPT !.status = Completed, !.completed_at = Some(t), !.updated_at = t]
    ELSE self

complete(self, t) ==
    IF self.status = Pending
    THEN [self EXCEPT !.status = Completed, !.completed_at = Some(t), !.updated_at = t]
    ELSE self

set_in_process(self, t) ==
    IF self.status = Pending
    THEN [self EXCEPT !.status = InProgress, !.updated_at = t]
    ELSE self

is_overdue(self, t) ==
    IF IsSome(self.due_date) THEN Unwrap(self.due_date) < t ELSE FALSE

is_completed(self) == self.status = Completed

is_in_process(self) == self.status = InProgress

\* Task::update, one field at a time as the method does.
update_title(self, request) ==
    IF /\ IsSome(request.title)
       /\ trim(Unwrap(request.title)) /= <<>>
       /\ self.title /= Unwrap(request.title)
    THEN [self EXCEPT !.title = Unwrap(request.title)]
    ELSE self

update_description(self, request) ==
    IF self.description /= request.description
    THEN [self EXCEPT !.description = request.description]
    ELSE self

\* Faulty variant of update_status: the status changes but completed_at is
\* left as it was.
update_status_keeps_completed_at(self, request, t) ==
    IF IsSome(request.status) /\ self.status /= Unwrap(request.status)
    THEN [self EXCEPT !.status = Unwrap(request.status)]
    ELSE self

update_status(self, request, t) ==
    IF IsSome(request.status) /\ self.status /= Unwrap(request.status)
    THEN LET old_status == self.status
             new_status == Unwrap(request.status)
         IN  [self EXCEPT
                !.status = new_status,
                !.completed_at =
                    IF new_status = Completed /\ old_status /= Completed THEN Some(t)
                    ELSE IF old_status = Completed /\ new_status /= Completed THEN None
                    ELSE self.completed_at]
    ELSE self

update_priority(self, request) ==
    IF IsSome(request.priority) /\ self.priority /= Unwrap(request.priority)
    THEN [self EXCEPT !.priority = Unwrap(request.priority)]
    ELSE self

update_due_date(self, request) ==
    IF self.due_date /= request.due_date
    THEN [self EXCEPT !.due_date = request.due_date]
    ELSE self

\* Faulty variant of Task_update: a changed task gets a new created_at along
\* with its updated_at.
Task_update_touches_created_at(self, request, t) ==
    LET s1 == update_title(self, request)
        s2 == update_description(s1, request)
        s3 == update_status(s2, request, t)
        s4 == update_priority(s3, request)
        s5 == update_due_date(s4, request)
        updated == s5 /= self
    IN  IF updated THEN [s5 EXCEPT !.updated_at = t, !.created_at = t] ELSE s5

Task_update(self, request, t) ==
    LET s1 == update_title(self, request)
        s2 == update_description(s1, request)
        s3 == update_status(s2, request, t)
        s4 == update_priority(s3, request)
        s5 == update_due_date(s4, request)
        updated == s5 /= self
    IN  IF updated THEN [s5 EXCEPT !.updated_at = t] ELSE s5

----------------------------------------------------------------------------
(* database/repositories/task_repository.rs: errors and the two stores *)

NotFound == [kind |-> "NotFound"]

DatabaseError == [kind |-> "DatabaseError"]

Insert(ts, t) == [i \in DOMAIN ts \cup {t.id} |-> IF i = t.id THEN t ELSE ts[i]]

Remove(ts, id) == [i \in DOMAIN ts \ {id} |-> ts[i]]

Rows(ts) == {ts[i] : i \in DOMAIN ts}

\* A repository call returns its result and the store it leaves behind.
Out(res, ts) == [res |-> res, tasks |-> ts]

(* MockTaskRepository (services/task_service.rs, mod tests) *)

Mock_store(ts, request, user_id, id, t) ==
    LET r == Task_new(request, user_id, id, t)
    IN  IF r.ok THEN Out(r, Insert(ts, r.val)) ELSE Out(r, ts)

Mock_find_by_id(ts, id) ==
    IF id \in DOMAIN ts THEN Some(ts[id]) ELSE None

Mock_find_by_user_id(ts, user_id) ==
    {x \in Rows(ts) : x.user_id = user_id}

Mock_find_overdue_by_user(ts, user_id, t) ==
    {x \in Rows(ts) : x.user_id = user_id /\ is_overdue(x, t) /\ ~is_completed(x)}

Mock_find_by_status(ts, user_id, status) ==
    {x \in Rows(ts) : x.user_id = user_id /\ x.status = status}

Mock_search_tasks(ts, user_id, search_term) ==
    LET search_lower == to_lowercase(search_term)
    IN  {x \in Rows(ts) :
            /\ x.user_id = user_id
            /\ \/ contains(to_lowercase(x.title), search_lower)
               \/ IF IsSome(x.description)
                  THEN contains(to_lowercase(Unwrap(x.description)), search_lower)
                  ELSE FALSE}

\* Faulty variant of MockTaskRepository::update: the owner is not compared.
Mock_update_any_owner(ts, id, user_id, request, t) ==
    IF id \in DOMAIN ts
    THEN LET n == Task_update(ts[id], request, t)
         IN  Out(Ok(n), [ts EXCEPT ![id] = n])
    ELSE Out(Err(NotFound), ts)

Mock_update(ts, id, user_id, request, t) ==
    IF id \in DOMAIN ts
    THEN IF ts[id].user_id /= user_id THEN Out(Err(NotFound), ts)
         ELSE LET n == Task_update(ts[id], request, t)
              IN  Out(Ok(n), [ts EXCEPT ![id] = n])
    ELSE Out(Err(NotFound), ts)

Mock_delete(ts, id, user_id) ==
    IF id \in DOMAIN ts
    THEN IF ts[id].user_id = user_id THEN Out(Ok(TRUE), Remove(ts, id))
         ELSE Out(Ok(FALSE), ts)
    ELSE Out(Ok(FALSE), ts)

(* PostgresTaskRepository.  The tasks table (tests/task_repository_tests.rs)  *)
(* declares title, status and priority NOT NULL; a statement that would    *)
(* store NULL in one of them fails and changes no row.                     *)

Pg_store(ts, request, user_id, id, t) ==
    LET r == Task_new(request, user_id, id, t)
    IN  IF r.ok THEN Out(r, Insert(ts, r.val)) ELSE Out(r, ts)

Pg_find_by_id(ts, id) ==
    IF id \in DOMAIN ts THEN Some(ts[id]) ELSE None

Pg_find_by_user_id(ts, user_id) ==
    {x \in Rows(ts) : x.user_id = user_id}

Pg_find_overdue_by_user(ts, user_id, t) ==
    {x \in Rows(ts) :
        /\ x.user_id = user_id
        /\ IsSome(x.due_date) /\ Unwrap(x.due_date) < t
        /\ x.status /= Completed}

\* Faulty variant of PostgresTaskRepository::find_by_status: the query leaves
\* out "user_id = $1".
Pg_find_by_status_all_users(ts, user_id, status) ==
    {x \in Rows(ts) : x.status = status}

Pg_find_by_status(ts, user_id, status) ==
    {x \in Rows(ts) : x.user_id = user_id /\ x.status = status}

Pg_search_tasks(ts, user_id, search_term) ==
    {x \in Rows(ts) :
        /\ x.user_id = user_id
        /\ \/ ilike_contains(x.title, search_term)
           \/ (IsSome(x.description) /\ ilike_contains(Unwrap(x.description), search_term))}

Pg_update(ts, id, user_id, request, t) ==
    IF ~UpdateTaskRequest_validate(request) THEN Out(Err(ValidationError), ts)
    ELSE
    LET completed_at == IF request.status = Some(Completed) THEN Some(t) ELSE None
    IN  IF ~(id \in DOMAIN ts /\ ts[id].user_id = user_id)
        THEN Out(Err(NotFound), ts)
        ELSE IF request.title = None \/ request.status = None \/ request.priority = None
        THEN Out(Err(DatabaseError), ts)
        ELSE LET n == [ts[id] EXCEPT
                        !.title = Unwrap(request.title),
                        !.description = request.description,
                        !.status = Unwrap(request.status),
                        !.priority = Unwrap(request.priority),
                        !.due_date = request.due_date,
                        !.completed_at = completed_at,
                        !.updated_at = t]
             IN  Out(Ok(n), [ts EXCEPT ![id] = n])

\* Faulty variant of Pg_delete: the row is deleted by id alone.
Pg_delete_any_owner(ts, id, user_id) ==
    IF id \in DOMAIN ts
    THEN Out(Ok(TRUE), Remove(ts, id))
    ELSE Out(Ok(FALSE), ts)

Pg_delete(ts, id, user_id) ==
    IF id \in DOMAIN ts /\ ts[id].user_id = user_id
    THEN Out(Ok(TRUE), Remove(ts, id))
    ELSE Out(Ok(FALSE), ts)

(* dyn TaskRepository: dispatch on the repository the service holds *)

Backends == {"mock", "postgres"}

repo_store(b, ts, request, user_id, id, t) ==
    IF b = "mock" THEN Mock_store(ts, request, user_id, id, t)
    ELSE Pg_store(ts, request, user_id, id, t)

repo_find_by_id(b, ts, id) ==
    IF b = "mock" THEN Mock_find_by_id(ts, id) ELSE Pg_find_by_id(ts, id)

repo_find_by_user_id(b, ts, user_id) ==
    IF b = "mock" THEN Mock_find_by_user_id(ts, user_id) ELSE Pg_find_by_user_id(ts, user_id)

repo_find_overdue_by_user(b, ts, user_id, t) ==
    IF b = "mock" THEN Mock_find_overdue_by_user(ts, user_id, t)
    ELSE Pg_find_overdue_by_user(ts, user_id, t)

repo_find_by_status(b, ts, user_id, status) ==
    IF b = "mock" THEN Mock_find_by_status(ts, user_id, status)
    ELSE Pg_find_by_status(ts, user_id, status)

repo_search_tasks(b, ts, user_id, term) ==
    IF b = "mock" THEN Mock_search_tasks(ts, user_id, term)
    ELSE Pg_search_tasks(ts, user_id, term)

repo_update(b, ts, id, user_id, request, t) ==
    IF b = "mock" THEN Mock_update(ts, id, user_id, request, t)
    ELSE Pg_update(ts, id, user_id, request, t)

repo_delete(b, ts, id, user_id) ==
    IF b = "mock" THEN Mock_delete(ts, id, user_id) ELSE Pg_delete(ts, id, user_id)

----------------------------------------------------------------------------
(* services/task_service.rs *)

TaskValidationError(message) == [kind |-> "ValidationError", message |-> message]

TaskNotFound == [kind |-> "TaskNotFound"]

AccessDenied == [kind |-> "AccessDenied"]

BulkOperationPartialFailure(failed_count, total_count) ==
    [kind |-> "BulkOperationPartialFailure",
     failed_count |-> failed_count, total_count |-> total_count]

RepositoryError(e) == [kind |-> "RepositoryError", cause |-> e.kind]

\* the due-date business rule shared by create_task and update_task
due_date_rejected(due_date, t) ==
    IsSome(due_date) /\ Unwrap(due_date) <= t

create_task(b, ts, user_id, request, id, t) ==
    IF ~StoreTaskRequest_validate(request)
    THEN Out(Err(TaskValidationError("Task creation validation failed")), ts)
    ELSE IF due_date_rejected(request.due_date, t)
    THEN Out(Err(TaskValidationError("Due date must be in the future")), ts)
    ELSE LET o == repo_store(b, ts, request, user_id, id, t)
         IN  IF o.res.ok THEN o ELSE Out(Err(RepositoryError(o.res.err)), o.tasks)

\* Faulty variant of apply_complex_filter: the search term is matched against
\* the title only.
apply_complex_filter_title_only(found, filter, t) ==
    {x \in found :
        /\ (IsSome(filter.status) => x.status = Unwrap(filter.status))
        /\ (IsSome(filter.priority) => x.priority = Unwrap(filter.priority))
        /\ (filter.overdue_only => is_overdue(x, t))
        /\ (IsSome(filter.search_term) =>
              contains(to_lowercase(x.title),
                       to_lowercase(Unwrap(filter.search_term))))}

apply_complex_filter(found, filter, t) ==
    {x \in found :
        /\ (IsSome(filter.status) => x.status = Unwrap(filter.status))
        /\ (IsSome(filter.priority) => x.priority = Unwrap(filter.priority))
        /\ (filter.overdue_only => is_overdue(x, t))
        /\ (IsSome(filter.search_term) =>
              LET term_lower == to_lowercase(Unwrap(filter.search_term))
                  title_match == contains(to_lowercase(x.title), term_lower)
                  desc_match == IF IsSome(x.description)
                                THEN contains(to_lowercase(Unwrap(x.description)), term_lower)
                                ELSE FALSE
              IN  title_match \/ desc_match)}

get_tasks(b, ts, user_id, filter, t) ==
    IF /\ IsSome(filter.status) /\ filter.priority = None
       /\ ~filter.overdue_only /\ filter.search_term = None
    THEN Ok(repo_find_by_status(b, ts, user_id, Unwrap(filter.status)))
    ELSE IF /\ filter.status = None /\ filter.priority = None
            /\ filter.overdue_only /\ filter.search_term = None
    THEN Ok(repo_find_overdue_by_user(b, ts, user_id, t))
    ELSE IF /\ filter.status = None /\ filter.priority = None
            /\ ~filter.overdue_only /\ IsSome(filter.search_term)
    THEN Ok(repo_search_tasks(b, ts, user_id, Unwrap(filter.search_term)))
    ELSE Ok(apply_complex_filter(repo_find_by_user_id(b, ts, user_id), filter, t))

\* Faulty variant of get_task: the owner is not compared.
get_task_any_owner(b, ts, user_id, task_id) ==
    LET found == repo_find_by_id(b, ts, task_id)
    IN  IF found = None THEN Err(TaskNotFound)
        ELSE Ok(Unwrap(found))

get_task(b, ts, user_id, task_id) ==
    LET found == repo_find_by_id(b, ts, task_id)
    IN  IF found = None THEN Err(TaskNotFound)
        ELSE IF Unwrap(found).user_id /= user_id THEN Err(AccessDenied)
        ELSE Ok(Unwrap(found))

\* Faulty variant of map_update_error: a row that is not found is reported as
\* a refusal of access.
map_update_error_access_denied(o) ==
    IF o.res.ok THEN o
    ELSE IF o.res.err.kind = "NotFound" THEN Out(Err(AccessDenied), o.tasks)
    ELSE Out(Err(RepositoryError(o.res.err)), o.tasks)

map_update_error(o) ==
    IF o.res.ok THEN o
    ELSE IF o.res.err.kind = "NotFound" THEN Out(Err(TaskNotFound), o.tasks)
    ELSE Out(Err(RepositoryError(o.res.err)), o.tasks)

update_task(b, ts, user_id, task_id, updates, t) ==
    IF ~UpdateTaskRequest_validate(updates)
    THEN Out(Err(TaskValidationError("Task update validation failed")), ts)
    ELSE IF due_date_rejected(updates.due_date, t)
    THEN Out(Err(TaskValidationError("Due date must be in the future")), ts)
    ELSE map_update_error(repo_update(b, ts, task_id, user_id, updates, t))

delete_task(b, ts, user_id, task_id) ==
    repo_delete(b, ts, task_id, user_id)

StatusOnly(status) ==
    [title |-> None, description |-> None, status |-> Some(status),
     priority |-> None, due_date |-> None]

complete_task(b, ts, user_id, task_id, t) ==
    map_update_error(repo_update(b, ts, task_id, user_id, StatusOnly(Completed), t))

get_overdue_tasks(b, ts, user_id, t) ==
    Ok(repo_find_overdue_by_user(b, ts, user_id, t))

Count(S) == Cardinality(S)

\* Faulty variant of calculate_statistics: a completed task past its due date
\* is counted as overdue.
calculate_statistics_counts_completed(found, t) ==
    [total_tasks |-> Count(found),
     pending_tasks |-> Count({x \in found : x.status = Pending}),
     in_progress_tasks |-> Count({x \in found : x.status = InProgress}),
     completed_tasks |-> Count({x \in found : x.status = Completed}),
     overdue_tasks |-> Count({x \in found : is_overdue(x, t)})]

calculate_statistics(found, t) ==
    [total_tasks |-> Count(found),
     pending_tasks |-> Count({x \in found : x.status = Pending}),
     in_progress_tasks |-> Count({x \in found : x.status = InProgress}),
     completed_tasks |-> Count({x \in found : x.status = Completed}),
     overdue_tasks |-> Count({x \in found : is_overdue(x, t) /\ ~is_completed(x)})]

get_task_statistics(b, ts, user_id, t) ==
    Ok(calculate_statistics(repo_find_by_user_id(b, ts, user_id), t))

\* the for loop of bulk_update_status: the store, the updated tasks and the
\* failure count after the ids have been processed in order
RECURSIVE bulk_update_loop(_, _, _, _, _, _, _)
bulk_update_loop(b, ts, user_id, task_ids, new_status, t, acc) ==
    IF task_ids = <<>> THEN [tasks |-> ts, updated_tasks |-> acc.updated_tasks,
                             failed_count |-> acc.failed_count]
    ELSE LET o == repo_update(b, ts, Head(task_ids), user_id, StatusOnly(new_status), t)
         IN  bulk_update_loop(b, o.tasks, user_id, Tail(task_ids), new_status, t,
                IF o.res.ok
                THEN [updated_tasks |-> Append(acc.updated_tasks, o.res.val),
                      failed_count |-> acc.failed_count]
                ELSE [updated_tasks |-> acc.updated_tasks,
                      failed_count |-> acc.failed_count + 1])

\* Faulty variant of bulk_update_result: any failure fails the whole call.
bulk_update_result_any_failure(loop, total_count) ==
    IF loop.failed_count > 0
    THEN Err(BulkOperationPartialFailure(loop.failed_count, total_count))
    ELSE Ok(loop.updated_tasks)

bulk_update_result(loop, total_count) ==
    IF loop.failed_count > 0 /\ loop.failed_count = total_count
    THEN Err(BulkOperationPartialFailure(loop.failed_count, total_count))
    ELSE Ok(loop.updated_tasks)

bulk_update_status(b, ts, user_id, task_ids, new_status, t) ==
    LET loop == bulk_update_loop(b, ts, user_id, task_ids, new_status, t,
                                 [updated_tasks |-> <<>>, failed_count |-> 0])
    IN  Out(bulk_update_result(loop, Len(task_ids)), loop.tasks)

RECURSIVE bulk_delete_loop(_, _, _, _, _)
bulk_delete_loop(b, ts, user_id, task_ids, acc) ==
    IF task_ids = <<>> THEN [tasks |-> ts, deleted_count |-> acc.deleted_count,
                             failed_count |-> acc.failed_count]
    ELSE LET o == repo_delete(b, ts, Head(task_ids), user_id)
         IN  bulk_delete_loop(b, o.tasks, user_id, Tail(task_ids),
                IF o.res.ok /\ o.res.val
                THEN [deleted_count |-> acc.deleted_count + 1,
                      failed_count |-> acc.failed_count]
                ELSE [deleted_count |-> acc.deleted_count,
                      failed_count |-> acc.failed_count + 1])

\* Faulty variant of bulk_delete_result: any failed id fails the call.
bulk_delete_result_any_failure(loop, total_count) ==
    IF loop.failed_count > 0
    THEN Err(BulkOperationPartialFailure(loop.failed_count, total_count))
    ELSE Ok(loop.deleted_count)

bulk_delete_result(loop, total_count) ==
    IF loop.failed_count > 0 /\ loop.deleted_count = 0
    THEN Err(BulkOperationPartialFailure(loop.failed_count, total_count))
    ELSE Ok(loop.deleted_count)

bulk_delete_tasks(b, ts, user_id, task_ids) ==
    LET loop == bulk_delete_loop(b, ts, user_id, task_ids,
                                 [deleted_count |-> 0, failed_count |-> 0])
    IN  Out(bulk_delete_result(loop, Len(task_ids)), loop.tasks)

\* search_tasks: the candidates found; truncate(limit) keeps a prefix of the
\* repository's order, modelled as any subset of the allowed size
search_found(b, ts, user_id, search_term) ==
    IF trim(search_term) = <<>> THEN {}
    ELSE repo_search_tasks(b, ts, user_id, trim(search_term))

truncated(found, limit) ==
    IF limit = None THEN {found}
    ELSE {S \in SUBSET found :
            Cardinality(S) = IF Cardinality(found) < Unwrap(limit)
                             THEN Cardinality(found) ELSE Unwrap(limit)}

----------------------------------------------------------------------------
(* Inputs *)

Users == {"u1", "u2"}

TaskIds == 1..MaxTasks

TickStep == 2

StoreRequest(title, description, status, priority, due_date) ==
    [title |-> title, description |-> description, status |-> status,
     priority |-> priority, due_date |-> due_date]

UpdateRequest(title, description, status, priority, due_date) ==
    [title |-> title, description |-> description, status |-> status,
     priority |-> priority, due_date |-> due_date]

\* the requests made of a Task object at time t: valid ones, and ones with a
\* blank, empty or over-long title, or a due date before, at or after t
StoreRequests(t) ==
    { StoreRequest(Str_Ab, None, Pending, Medium, None),
      StoreRequest(Str_b_padded, Some(Str_aB), Completed, High, Some(t + 1)),
      StoreRequest(Str_Ab, Some(Str_aB), InProgress, Low, Some(t + 2)),
      StoreRequest(Str_blank, None, Pending, Medium, None),
      StoreRequest(Str_empty, None, Pending, Medium, None),
      StoreRequest(Str_long, None, Pending, Medium, None),
      StoreRequest(Str_Ab, None, Pending, Medium, Some(t)),
      StoreRequest(Str_Ab, None, Completed, Medium, Some(t - 1)) }

UpdateRequests(t) ==
    { StatusOnly(Pending),
      UpdateRequest(Some(Str_b), Some(Str_aB), Some(Completed), Some(High), None),
      UpdateRequest(Some(Str_blank), None, None, None, None),
      UpdateRequest(Some(Str_blank), None, Some(InProgress), Some(Low), Some(t + 1)),
      UpdateRequest(Some(Str_empty), None, None, None, None),
      UpdateRequest(None, None, None, Some(High), Some(t + 1)),
      UpdateRequest(None, None, None, None, Some(t)),
      UpdateRequest(None, None, Some(Completed), None, Some(t - 1)),
      UpdateRequest(None, None, None, None, None) }

\* the requests made of the TaskService at time t
ServiceStoreRequests(t) ==
    { StoreRequest(Str_Ab, None, Pending, Medium, None),
      StoreRequest(Str_b_padded, Some(Str_aB), Completed, High, Some(t + 1)),
      StoreRequest(Str_blank, None, Pending, Medium, None),
      StoreRequest(Str_long, None, Pending, Medium, None),
      StoreRequest(Str_Ab, None, Pending, Medium, Some(t)),
      StoreRequest(Str_Ab, None, Completed, Medium, Some(t - 1)) }

ServiceUpdateRequests(t) ==
    { UpdateRequest(Some(Str_b), Some(Str_aB), Some(Completed), Some(High), None),
      UpdateRequest(Some(Str_blank), None, Some(InProgress), Some(Medium), Some(t + 2)),
      UpdateRequest(None, None, None, None, Some(t + 1)),
      UpdateRequest(Some(Str_empty), None, None, None, None),
      UpdateRequest(None, None, None, None, Some(t)),
      UpdateRequest(None, None, Some(Completed), None, Some(t - 1)) }

Filter(status, priority, overdue_only, search_term) ==
    [status |-> status, priority |-> priority,
     overdue_only |-> overdue_only, search_term |-> search_term]

Filters ==
    { Filter(st, pr, ov, se) :
        st \in {None, Some(Pending), Some(Completed)},
        pr \in {None, Some(High)},
        ov \in BOOLEAN,
        se \in {None, Some(<<"A">>)} }

SearchTerms == { <<"A">>, Str_underscore, Str_blank }

Limits == { None, Some(1) }

RECURSIVE SeqsUpTo(_, _)
SeqsUpTo(S, n) ==
    IF n = 0 THEN { <<>> }
    ELSE LET shorter == SeqsUpTo(S, n - 1)
         IN  shorter \cup { Append(q, x) : q \in shorter, x \in S }

IdLists == SeqsUpTo(TaskIds, MaxBulk)

BulkStatuses == {InProgress, Completed}

----------------------------------------------------------------------------
(* State machine of the task side *)

\* a call in flight: the handler, the caller, the arguments, the store (or the
\* Task object) the handler found, and what it returned
Call(op, user, arg, pre, res) ==
    [op |-> op, user |-> user, arg |-> arg, pre |-> pre, res |-> res]

\* a CLI process between commands holds nothing
NoProc == [pc |-> "idle", session |-> <<>>, overtaken |-> FALSE, request |-> <<>>]

MaxProcs == 2

Procs == 1..MaxProcs

NoCli == [p \in Procs |-> NoProc]

NoCall == Call("none", "none", <<>>, <<>>, Ok(<<>>))

EmptyStore == [i \in {} |-> <<>>]

\* an empty users table, an empty session directory
NoRows == [i \in {} |-> <<>>]

Init ==
    /\ backend \in {"none"} \cup Backends
    /\ tasks = EmptyStore
    /\ next_id = 1
    /\ now = 0
    /\ ticks = 0
    /\ task = None
    /\ last = NoCall
    /\ users = NoRows
    /\ next_user_id = 1
    /\ files = NoRows
    /\ jwt_secret = "k1"
    /\ minted = 0
    /\ issued = {}
    /\ cli = NoCli

\* A caller makes one call at a time: last holds the call and its result until
\* the caller has taken it (Return), and only then is the next call made.
Idle == last.op = "none"

Return ==
    /\ ~Idle
    /\ last' = NoCall
    /\ UNCHANGED auth_vars
    /\ UNCHANGED <<backend, tasks, next_id, now, ticks, task>>

Tick ==
    /\ Idle
    /\ ticks < MaxTicks
    /\ now' = now + TickStep
    /\ ticks' = ticks + 1
    /\ UNCHANGED auth_vars
    /\ UNCHANGED <<backend, tasks, next_id, task, last>>

(* the Task methods applied to a Task object the caller holds *)

NewTask ==
    /\ Idle /\ backend = "none"
    /\ \E u \in Users, r \in StoreRequests(now) :
         LET res == Task_new(r, u, 1, now)
         IN  /\ task' = IF res.ok THEN Some(res.val) ELSE task
             /\ last' = Call("Task::new", u, r, task, res)
    /\ UNCHANGED auth_vars
    /\ UNCHANGED <<backend, tasks, next_id, now, ticks>>

UpdateEntity ==
    /\ Idle /\ backend = "none" /\ IsSome(task)
    /\ \E r \in UpdateRequests(now) :
         /\ task' = Some(Task_update(Unwrap(task), r, now))
         /\ last' = Call("Task::update", Unwrap(task).user_id, r, task, Ok(<<>>))
    /\ UNCHANGED auth_vars
    /\ UNCHANGED <<backend, tasks, next_id, now, ticks>>

CompleteEntity ==
    /\ Idle /\ backend = "none" /\ IsSome(task)
    /\ task' = Some(complete(Unwrap(task), now))
    /\ last' = Call("Task::complete", Unwrap(task).user_id, <<>>, task, Ok(<<>>))
    /\ UNCHANGED auth_vars
    /\ UNCHANGED <<backend, tasks, next_id, now, ticks>>

UncompleteEntity ==
    /\ Idle /\ backend = "none" /\ IsSome(task)
    /\ task' = Some(uncomplete(Unwrap(task), now))
    /\ last' = Call("Task::uncomplete", Unwrap(task).user_id, <<>>, task, Ok(<<>>))
    /\ UNCHANGED auth_vars
    /\ UNCHANGED <<backend, tasks, next_id, now, ticks>>

SetInProcessEntity ==
    /\ Idle /\ backend = "none" /\ IsSome(task)
    /\ task' = Some(set_in_process(Unwrap(task), now))
    /\ last' = Call("Task::set_in_process", Unwrap(task).user_id, <<>>, task, Ok(<<>>))
    /\ UNCHANGED auth_vars
    /\ UNCHANGED <<backend, tasks, next_id, now, ticks>>

(* the TaskService handlers *)

CreateTask ==
    /\ Idle /\ backend \in Backends /\ next_id <= MaxTasks
    /\ \E u \in Users, r \in ServiceStoreRequests(now) :
         LET o == create_task(backend, tasks, u, r, next_id, now)
         IN  /\ tasks' = o.tasks
             /\ next_id' = IF o.res.ok THEN next_id + 1 ELSE next_id
             /\ last' = Call("create_task", u, r, tasks, o.res)
    /\ UNCHANGED auth_vars
    /\ UNCHANGED <<backend, now, ticks, task>>

GetTasks ==
    /\ Idle /\ backend \in Backends
    /\ \E u \in Users, f \in Filters :
         last' = Call("get_tasks", u, f, tasks, get_tasks(backend, tasks, u, f, now))
    /\ UNCHANGED auth_vars
    /\ UNCHANGED <<backend, tasks, next_id, now, ticks, task>>

GetTask ==
    /\ Idle /\ backend \in Backends
    /\ \E u \in Users, id \in TaskIds :
         last' = Call("get_task", u, id, tasks, get_task(backend, tasks, u, id))
    /\ UNCHANGED auth_vars
    /\ UNCHANGED <<backend, tasks, next_id, now, ticks, task>>

UpdateTask ==
    /\ Idle /\ backend \in Backends
    /\ \E u \in Users, id \in TaskIds, r \in ServiceUpdateRequests(now) :
         LET o == update_task(backend, tasks, u, id, r, now)
         IN  /\ tasks' = o.tasks
             /\ last' = Call("update_task", u, <<id, r>>, tasks, o.res)
    /\ UNCHANGED auth_vars
    /\ UNCHANGED <<backend, next_id, now, ticks, task>>

DeleteTask ==
    /\ Idle /\ backend \in Backends
    /\ \E u \in Users, id \in TaskIds :
         LET o == delete_task(backend, tasks, u, id)
         IN  /\ tasks' = o.tasks
             /\ last' = Call("delete_task", u, id, tasks, o.res)
    /\ UNCHANGED auth_vars
    /\ UNCHANGED <<backend, next_id, now, ticks, task>>

CompleteTask ==
    /\ Idle /\ backend \in Backends
    /\ \E u \in Users, id \in TaskIds :
         LET o == complete_task(backend, tasks, u, id, now)
         IN  /\ tasks' = o.tasks
             /\ last' = Call("complete_task", u, id, tasks, o.res)
    /\ UNCHANGED auth_vars
    /\ UNCHANGED <<backend, next_id, now, ticks, task>>

GetOverdueTasks ==
    /\ Idle /\ backend \in Backends
    /\ \E u \in Users :
         last' = Call("get_overdue_tasks", u, <<>>, tasks,
                      get_overdue_tasks(backend, tasks, u, now))
    /\ UNCHANGED auth_vars
    /\ UNCHANGED <<backend, tasks, next_id, now, ticks, task>>

GetTaskStatistics ==
    /\ Idle /\ backend \in Backends
    /\ \E u \in Users :
         last' = Call("get_task_statistics", u, <<>>, tasks,
                      get_task_statistics(backend, tasks, u, now))
    /\ UNCHANGED auth_vars
    /\ UNCHANGED <<backend, tasks, next_id, now, ticks, task>>

BulkUpdateStatus ==
    /\ Idle /\ backend \in Backends
    /\ \E u \in Users, ids \in IdLists, st \in BulkStatuses :
         LET o == bulk_update_status(backend, tasks, u, ids, st, now)
         IN  /\ tasks' = o.tasks
             /\ last' = Call("bulk_update_status", u, <<ids, st>>, tasks, o.res)
    /\ UNCHANGED auth_vars
    /\ UNCHANGED <<backend, next_id, now, ticks, task>>

BulkDeleteTasks ==
    /\ Idle /\ backend \in Backends
    /\ \E u \in Users, ids \in IdLists :
         LET o == bulk_delete_tasks(backend, tasks, u, ids)
         IN  /\ tasks' = o.tasks
             /\ last' = Call("bulk_delete_tasks", u, ids, tasks, o.res)
    /\ UNCHANGED auth_vars
    /\ UNCHANGED <<backend, next_id, now, ticks, task>>

SearchTasks ==
    /\ Idle /\ backend \in Backends
    /\ \E u \in Users, term \in SearchTerms, limit \in Limits :
         \E found \in truncated(search_found(backend, tasks, u, term), limit) :
            last' = Call("search_tasks", u, <<term, limit>>, tasks, Ok(found))
    /\ UNCHANGED auth_vars
    /\ UNCHANGED <<backend, tasks, next_id, now, ticks, task>>

Next ==
    \/ Return
    \/ Tick
    \/ NewTask
    \/ UpdateEntity
    \/ CompleteEntity
    \/ UncompleteEntity
    \/ SetInProcessEntity
    \/ CreateTask
    \/ GetTasks
    \/ GetTask
    \/ UpdateTask
    \/ DeleteTask
    \/ CompleteTask
    \/ GetOverdueTasks
    \/ GetTaskStatistics
    \/ BulkUpdateStatus
    \/ BulkDeleteTasks
    \/ SearchTasks

Spec == Init /\ [][Next]_vars

----------------------------------------------------------------------------
(* models/user.rs *)

\* usernames, emails and passwords are sequences of characters
Name_alice == <<"a", "l", "i", "c", "e">>

Name_bob == <<"b", "o", "b", "_", "2">>

Name_short == <<"a", "l">>

Email_alice == <<"a", "@", "x">>

Email_bob == <<"b", "@", "x">>

Email_carol == <<"c", "@", "x">>

Email_bad == <<"a", "x">>

Pw_1 == <<"p", "a", "s", "s", "w", "o", "r", "d", "1">>

Pw_2 == <<"p", "a", "s", "s", "w", "o", "r", "d", "2">>

Pw_short == <<"p", "w", "1">>

Pw_letters == <<"p", "a", "s", "s", "w", "o", "r", "d", "s">>

Alphabetic == {"a", "b", "c", "d", "e", "i", "l", "o", "p", "r", "s", "w", "x"}

Numeric == {"0", "1", "2", "3", "4", "5", "6", "7", "8", "9"}

Chars(s) == {s[k] : k \in 1..Len(s)}

USERNAME_MIN == 3

USERNAME_MAX == 50

PASSWORD_MIN == 8

PASSWORD_MAX == 128

\* USERNAME_REGEX: ^[a-zA-Z0-9_]+$
USERNAME_REGEX(s) == s /= <<>> /\ Chars(s) \subseteq Alphabetic \cup Numeric \cup {"_"}

\* #[validate(email)]: a user part, one "@", a domain part
validate_email(s) ==
    \E k \in 1..Len(s) :
        /\ s[k] = "@"
        /\ k > 1 /\ k < Len(s)
        /\ \A j \in 1..Len(s) : j /= k => s[j] \in Alphabetic \cup Numeric \cup {"."}

validate_password(password) ==
    /\ Len(password) >= PASSWORD_MIN
    /\ Len(password) <= PASSWORD_MAX
    /\ Chars(password) \cap Alphabetic /= {}
    /\ Chars(password) \cap Numeric /= {}

\* bcrypt: the hash is a string of its own, never the plaintext; verification
\* depends on the password alone (the salt is inside the hash)
hash(password) == <<"$", "2", "b", "$">> \o password

\* Faulty variant of verify: any password is accepted against a bcrypt hash.
verify_any_password(password, password_hash) ==
    Len(password_hash) >= 4 /\ SubSeq(password_hash, 1, 4) = <<"$", "2", "b", "$">>

verify(password, password_hash) == password_hash = hash(password)

StoreUserRequest_validate(request) ==
    /\ Len(request.username) >= USERNAME_MIN
    /\ Len(request.username) <= USERNAME_MAX
    /\ USERNAME_REGEX(request.username)
    /\ validate_email(request.email)
    /\ validate_password(request.password)

UpdateUserRequest_validate(updates) ==
    /\ (IsSome(updates.email) => validate_email(Unwrap(updates.email)))
    /\ (IsSome(updates.password) => validate_password(Unwrap(updates.password)))

\* StoreUserRequest::store: hash, then validate
StoreUserRequest_store(username, email, password) ==
    LET request == [username |-> username, email |-> email,
                    password |-> password, password_hash |-> hash(password)]
    IN  IF StoreUserRequest_validate(request) THEN Ok(request) ELSE Err(ValidationError)

verify_password(self, password) == verify(password, self.password_hash)

to_response(self) ==
    [id |-> self.id, username |-> self.username, email |-> self.email,
     created_at |-> self.created_at, updated_at |-> self.updated_at]

----------------------------------------------------------------------------
(* database/repositories/user_repository.rs: PostgresUserRepository.
   db is TRUE when the database fails the queries of the call. *)

UserRepositoryError_NotFound == [kind |-> "UserRepositoryError::NotFound"]

UserRepositoryError_UsernameExists(username) ==
    [kind |-> "UserRepositoryError::UsernameExists", username |-> username]

UserRepositoryError_EmailExists(email) ==
    [kind |-> "UserRepositoryError::EmailExists", email |-> email]

UserRepositoryError_DatabaseError == [kind |-> "UserRepositoryError::DatabaseError"]

\* A user repository call returns its result and the table it leaves behind.
UOut(res, us) == [res |-> res, users |-> us]

exists_by_username(us, username, db) ==
    IF db THEN Err(UserRepositoryError_DatabaseError)
    ELSE Ok(\E i \in DOMAIN us : us[i].username = username)

exists_by_email(us, email, db) ==
    IF db THEN Err(UserRepositoryError_DatabaseError)
    ELSE Ok(\E i \in DOMAIN us : us[i].email = email)

user_exists_by_id(us, id, db) ==
    IF db THEN Err(UserRepositoryError_DatabaseError)
    ELSE Ok(id \in DOMAIN us)

User_store(us, user, id, t, db) ==
    LET by_name == exists_by_username(us, user.username, db)
        by_email == exists_by_email(us, user.email, db)
        row == [id |-> id, username |-> user.username, email |-> user.email,
                password_hash |-> user.password_hash,
                created_at |-> t, updated_at |-> t]
    IN  IF ~by_name.ok THEN UOut(by_name, us)
        ELSE IF by_name.val
        THEN UOut(Err(UserRepositoryError_UsernameExists(user.username)), us)
        ELSE IF ~by_email.ok THEN UOut(by_email, us)
        ELSE IF by_email.val
        THEN UOut(Err(UserRepositoryError_EmailExists(user.email)), us)
        ELSE UOut(Ok(row), Insert(us, row))

User_find_by_id(us, id, db) ==
    IF db THEN Err(UserRepositoryError_DatabaseError)
    ELSE IF id \in DOMAIN us THEN Ok(Some(us[id])) ELSE Ok(None)

User_find_by_username(us, username, db) ==
    IF db THEN Err(UserRepositoryError_DatabaseError)
    ELSE IF \E i \in DOMAIN us : us[i].username = username
    THEN Ok(Some(us[CHOOSE i \in DOMAIN us : us[i].username = username]))
    ELSE Ok(None)

User_find_by_email(us, email, db) ==
    IF db THEN Err(UserRepositoryError_DatabaseError)
    ELSE IF \E i \in DOMAIN us : us[i].email = email
    THEN Ok(Some(us[CHOOSE i \in DOMAIN us : us[i].email = email]))
    ELSE Ok(None)

User_update(us, id, updates, t, db) ==
    LET there == user_exists_by_id(us, id, db)
    IN  IF ~there.ok THEN UOut(there, us)
        ELSE IF ~there.val THEN UOut(Err(UserRepositoryError_NotFound), us)
        ELSE IF updates.email = None /\ updates.password_hash = None
        THEN UOut(Ok(us[id]), us)
        ELSE LET n == [us[id] EXCEPT
                        !.email = IF IsSome(updates.email)
                                  THEN Unwrap(updates.email) ELSE @,
                        !.password_hash = IF IsSome(updates.password_hash)
                                          THEN Unwrap(updates.password_hash) ELSE @,
                        !.updated_at = t]
             IN  UOut(Ok(n), [us EXCEPT ![id] = n])

User_delete(us, id, db) ==
    IF db THEN UOut(Err(UserRepositoryError_DatabaseError), us)
    ELSE UOut(Ok(id \in DOMAIN us), Remove(us, id))

----------------------------------------------------------------------------
(* services/user_service.rs *)

UserServiceError_ValidationError == [kind |-> "UserServiceError::ValidationError"]

UserNotFound == [kind |-> "UserServiceError::UserNotFound"]

UserServiceError_AuthenticationFailed ==
    [kind |-> "UserServiceError::AuthenticationFailed"]

UsernameExists(username) ==
    [kind |-> "UserServiceError::UsernameExists", username |-> username]

EmailExists(email) == [kind |-> "UserServiceError::EmailExists", email |-> email]

UserServiceError_RepositoryError(e) ==
    [kind |-> "UserServiceError::RepositoryError", cause |-> e]

\* Faulty variant of check_user_uniqueness: the email is looked up first.
check_user_uniqueness_email_first(us, request, db) ==
    LET by_name == exists_by_username(us, request.username, db)
        by_email == exists_by_email(us, request.email, db)
    IN  IF ~by_email.ok THEN Err(UserServiceError_RepositoryError(by_email.err))
        ELSE IF by_email.val THEN Err(EmailExists(request.email))
        ELSE IF ~by_name.ok THEN Err(UserServiceError_RepositoryError(by_name.err))
        ELSE IF by_name.val THEN Err(UsernameExists(request.username))
        ELSE Ok(<<>>)

check_user_uniqueness(us, request, db) ==
    LET by_name == exists_by_username(us, request.username, db)
        by_email == exists_by_email(us, request.email, db)
    IN  IF ~by_name.ok THEN Err(UserServiceError_RepositoryError(by_name.err))
        ELSE IF by_name.val THEN Err(UsernameExists(request.username))
        ELSE IF ~by_email.ok THEN Err(UserServiceError_RepositoryError(by_email.err))
        ELSE IF by_email.val THEN Err(EmailExists(request.email))
        ELSE Ok(<<>>)

register(us, request, id, t, db) ==
    IF ~StoreUserRequest_validate(request)
    THEN UOut(Err(UserServiceError_ValidationError), us)
    ELSE LET unique == check_user_uniqueness(us, request, db)
             stored == User_store(us, request, id, t, db)
         IN  IF ~unique.ok THEN UOut(unique, us)
             ELSE IF ~stored.res.ok
             THEN UOut(Err(UserServiceError_RepositoryError(stored.res.err)), us)
             ELSE UOut(Ok(to_response(stored.res.val)), stored.users)

\* Faulty variant of find_user_by_identifier: only usernames are looked up.
find_user_by_identifier_username_only(us, identifier, db) ==
    LET by_name == User_find_by_username(us, identifier, db)
    IN  IF ~by_name.ok THEN Err(UserServiceError_RepositoryError(by_name.err))
        ELSE IF IsSome(by_name.val) THEN Ok(Unwrap(by_name.val))
        ELSE Err(UserNotFound)

find_user_by_identifier(us, identifier, db) ==
    LET by_name == User_find_by_username(us, identifier, db)
        by_email == User_find_by_email(us, identifier, db)
    IN  IF ~by_name.ok THEN Err(UserServiceError_RepositoryError(by_name.err))
        ELSE IF IsSome(by_name.val) THEN Ok(Unwrap(by_name.val))
        ELSE IF ~by_email.ok THEN Err(UserServiceError_RepositoryError(by_email.err))
        ELSE IF IsSome(by_email.val) THEN Ok(Unwrap(by_email.val))
        ELSE Err(UserNotFound)

authenticate(us, identifier, password, db) ==
    IF identifier = <<>> \/ password = <<>>
    THEN Err(UserServiceError_AuthenticationFailed)
    ELSE LET user == find_user_by_identifier(us, identifier, db)
         IN  IF ~user.ok THEN user
             ELSE IF ~verify_password(user.val, password)
             THEN Err(UserServiceError_AuthenticationFailed)
             ELSE Ok(to_response(user.val))

get_profile(us, user_id, db) ==
    LET user == User_find_by_id(us, user_id, db)
    IN  IF ~user.ok THEN Err(UserServiceError_RepositoryError(user.err))
        ELSE IF user.val = None THEN Err(UserNotFound)
        ELSE Ok(to_response(Unwrap(user.val)))

update_profile(us, user_id, updates, t, db) ==
    IF ~UpdateUserRequest_validate(updates)
    THEN UOut(Err(UserServiceError_ValidationError), us)
    ELSE LET taken == IF IsSome(updates.email)
                      THEN exists_by_email(us, Unwrap(updates.email), db)
                      ELSE Ok(FALSE)
             updated == User_update(us, user_id, updates, t, db)
         IN  IF ~taken.ok THEN UOut(Err(UserServiceError_RepositoryError(taken.err)), us)
             ELSE IF taken.val THEN UOut(Err(EmailExists(Unwrap(updates.email))), us)
             ELSE IF ~updated.res.ok
             THEN UOut(Err(UserServiceError_RepositoryError(updated.res.err)), us)
             ELSE UOut(Ok(to_response(updated.res.val)), updated.users)

delete_account(us, user_id, db) ==
    LET deleted == User_delete(us, user_id, db)
    IN  IF ~deleted.res.ok
        THEN UOut(Err(UserServiceError_RepositoryError(deleted.res.err)), us)
        ELSE deleted

----------------------------------------------------------------------------
(* services/auth_service.rs.  The clock of the auth side counts hours.
   db is TRUE when the database fails the queries of the call, io is TRUE when
   the file system refuses to create or remove the session file during it. *)

AuthenticationFailed == [kind |-> "AuthServiceError::AuthenticationFailed"]

InvalidToken == [kind |-> "AuthServiceError::InvalidToken"]

SessionNotFound == [kind |-> "AuthServiceError::SessionNotFound"]

SessionExpired == [kind |-> "AuthServiceError::SessionExpired"]

AuthServiceError_UserServiceError(e) ==
    [kind |-> "AuthServiceError::UserServiceError", cause |-> e]

IoError == [kind |-> "AuthServiceError::IoError"]

JsonError == [kind |-> "AuthServiceError::JsonError"]

InternalError == [kind |-> "AuthServiceError::InternalError"]

\* session_file_path: session_dir/session.json
SESSION_FILE == "session.json"

TOKEN_EXPIRY_HOURS == 24

REFRESH_TOKEN_EXPIRY_DAYS == 30

Duration_hours(h) == h

Duration_days(d) == d * 24

\* Uuid::to_string and Uuid::parse_str
Uuid_to_string(id) == <<"uuid", id>>

Uuid_parse_str(s) ==
    IF Len(s) = 2 /\ s[1] = "uuid" THEN Ok(s[2]) ELSE Err(InvalidToken)

\* jsonwebtoken::encode with HS256: the claims, signed with the key
encode(claims, key) ==
    [sub |-> claims.sub, username |-> claims.username, email |-> claims.email,
     iat |-> claims.iat, exp |-> claims.exp, jti |-> claims.jti, sig |-> key]

\* a string that is no JWT
MalformedToken ==
    [sub |-> <<>>, username |-> <<>>, email |-> <<>>,
     iat |-> 0, exp |-> 0, jti |-> 0, sig |-> "malformed"]

\* Faulty variant of decode_token: a token is rejected already in the hour its
\* expiry names.
decode_token_expiry_inclusive(token, key, t) ==
    IF token.sig /= key THEN Err(InvalidToken)
    ELSE IF token.exp <= t THEN Err(InvalidToken)
    ELSE Ok([sub |-> token.sub, username |-> token.username, email |-> token.email,
             iat |-> token.iat, exp |-> token.exp, jti |-> token.jti])

\* decode_token: jsonwebtoken::decode with Validation::new(HS256) checks the
\* signature and the expiry (its leeway of 60 s is below one hour)
\* Faulty variant of decode_token: the claims are read without verifying the
\* signature.
decode_token_unverified(token, key, t) ==
    IF token.exp < t THEN Err(InvalidToken)
    ELSE Ok([sub |-> token.sub, username |-> token.username, email |-> token.email,
             iat |-> token.iat, exp |-> token.exp, jti |-> token.jti])

decode_token(token, key, t) ==
    IF token.sig /= key THEN Err(InvalidToken)
    ELSE IF token.exp < t THEN Err(InvalidToken)
    ELSE Ok([sub |-> token.sub, username |-> token.username, email |-> token.email,
             iat |-> token.iat, exp |-> token.exp, jti |-> token.jti])

\* Faulty variant of generate_tokens: the tokens carry no fresh jti.
generate_tokens_fixed_jti(user, key, jti, t) ==
    LET claims(exp) == [sub |-> Uuid_to_string(user.id), username |-> user.username,
                        email |-> user.email, iat |-> t, exp |-> exp, jti |-> 0]
    IN  [token |-> encode(claims(t + Duration_hours(TOKEN_EXPIRY_HOURS)), key),
         refresh_token |-> encode(claims(t + Duration_days(REFRESH_TOKEN_EXPIRY_DAYS)), key),
         expires_at |-> t + Duration_days(REFRESH_TOKEN_EXPIRY_DAYS)]

\* Faulty variant of generate_tokens: the session expires with the access token.
generate_tokens_access_expiry(user, key, jti, t) ==
    LET claims(exp, n) == [sub |-> Uuid_to_string(user.id), username |-> user.username,
                           email |-> user.email, iat |-> t, exp |-> exp, jti |-> jti + n]
    IN  [token |-> encode(claims(t + Duration_hours(TOKEN_EXPIRY_HOURS), 1), key),
         refresh_token |-> encode(claims(t + Duration_days(REFRESH_TOKEN_EXPIRY_DAYS), 2), key),
         expires_at |-> t + Duration_hours(TOKEN_EXPIRY_HOURS)]

generate_tokens(user, key, jti, t) ==
    LET access_token_exp == t + Duration_hours(TOKEN_EXPIRY_HOURS)
        refresh_token_exp == t + Duration_days(REFRESH_TOKEN_EXPIRY_DAYS)
        access_claims == [sub |-> Uuid_to_string(user.id), username |-> user.username,
                          email |-> user.email, iat |-> t, exp |-> access_token_exp,
                          jti |-> jti + 1]
        refresh_claims == [sub |-> Uuid_to_string(user.id), username |-> user.username,
                           email |-> user.email, iat |-> t, exp |-> refresh_token_exp,
                           jti |-> jti + 2]
    IN  [token |-> encode(access_claims, key),
         refresh_token |-> encode(refresh_claims, key),
         expires_at |-> refresh_token_exp]

SessionFields ==
    {"user_id", "username", "email", "token", "refresh_token",
     "created_at", "expires_at", "last_accessed"}

\* serde_json::to_string_pretty(session): one member per field
to_string_pretty(session) == [f \in SessionFields |-> session[f]]

\* serde_json::from_str::<Session>: every field must be there
from_str(json_data) ==
    IF DOMAIN json_data = SessionFields THEN Ok(json_data) ELSE Err(JsonError)

\* a file content that is no Session
NotASession == [text |-> "garbage"]

exists(fs, path) == path \in DOMAIN fs

write(fs, path, data) ==
    [f \in DOMAIN fs \cup {path} |-> IF f = path THEN data ELSE fs[f]]

remove_file(fs, path) == [f \in DOMAIN fs \ {path} |-> fs[f]]

\* An auth call returns its result, the session directory it leaves behind,
\* the private helpers it went through and the number of tokens it minted.
AOut(res, fs, steps, n) == [res |-> res, files |-> fs, steps |-> steps, minted |-> n]

\* Faulty variant of save_session: one session file per user.
save_session_per_user(fs, session, io) ==
    IF io THEN AOut(Err(IoError), fs, <<"save_session">>, 0)
    ELSE AOut(Ok(<<>>),
              write(fs, IF session.user_id = 1 THEN SESSION_FILE ELSE "session-2.json",
                    to_string_pretty(session)),
              <<"save_session">>, 0)

save_session(fs, session, io) ==
    IF io THEN AOut(Err(IoError), fs, <<"save_session">>, 0)
    ELSE AOut(Ok(<<>>), write(fs, SESSION_FILE, to_string_pretty(session)),
              <<"save_session">>, 0)

load_session(fs) ==
    IF ~exists(fs, SESSION_FILE) THEN Err(SessionNotFound)
    ELSE from_str(fs[SESSION_FILE])

\* Faulty variant of logout: a missing session file is an error.
logout_requires_file(fs, io) ==
    IF exists(fs, SESSION_FILE)
    THEN IF io THEN AOut(Err(InternalError), fs, <<"logout">>, 0)
         ELSE AOut(Ok(<<>>), remove_file(fs, SESSION_FILE), <<"logout">>, 0)
    ELSE AOut(Err(SessionNotFound), fs, <<"logout">>, 0)

\* Faulty variant of logout: success is reported but the file stays.
logout_keeps_file(fs, io) ==
    IF exists(fs, SESSION_FILE) /\ io
    THEN AOut(Err(InternalError), fs, <<"logout">>, 0)
    ELSE AOut(Ok(<<>>), fs, <<"logout">>, 0)

logout(fs, io) ==
    IF exists(fs, SESSION_FILE)
    THEN IF io THEN AOut(Err(InternalError), fs, <<"logout">>, 0)
         ELSE AOut(Ok(<<>>), remove_file(fs, SESSION_FILE), <<"logout">>, 0)
    ELSE AOut(Ok(<<>>), fs, <<"logout">>, 0)

\* Faulty variant of login: UserNotFound is passed on as a user service error.
login_reports_unknown_user(us, fs, key, identifier, password, jti, t, db, io) ==
    LET user == authenticate(us, identifier, password, db)
    IN  IF ~user.ok
        THEN IF user.err.kind = UserServiceError_AuthenticationFailed.kind
             THEN AOut(Err(AuthenticationFailed), fs, <<>>, 0)
             ELSE AOut(Err(AuthServiceError_UserServiceError(user.err)), fs, <<>>, 0)
        ELSE LET tokens == generate_tokens(user.val, key, jti, t)
                 session == [user_id |-> user.val.id,
                             username |-> user.val.username,
                             email |-> user.val.email,
                             token |-> tokens.token,
                             refresh_token |-> tokens.refresh_token,
                             created_at |-> t,
                             expires_at |-> tokens.expires_at,
                             last_accessed |-> t]
                 saved == save_session(fs, session, io)
             IN  IF ~saved.res.ok
                 THEN AOut(saved.res, saved.files, <<"generate_tokens", "save_session">>, 2)
                 ELSE AOut(Ok([user |-> user.val, token |-> tokens.token,
                               refresh_token |-> tokens.refresh_token,
                               expires_at |-> tokens.expires_at]),
                           saved.files, <<"generate_tokens", "save_session">>, 2)

\* Faulty variant of login: a failed authentication logs the current session out.
login_clears_session_on_failure(us, fs, key, identifier, password, jti, t, db, io) ==
    LET user == authenticate(us, identifier, password, db)
    IN  IF ~user.ok
        THEN IF \/ user.err.kind = UserServiceError_AuthenticationFailed.kind
                \/ user.err.kind = UserNotFound.kind
             THEN AOut(Err(AuthenticationFailed), remove_file(fs, SESSION_FILE), <<>>, 0)
             ELSE AOut(Err(AuthServiceError_UserServiceError(user.err)), fs, <<>>, 0)
        ELSE LET tokens == generate_tokens(user.val, key, jti, t)
                 session == [user_id |-> user.val.id,
                             username |-> user.val.username,
                             email |-> user.val.email,
                             token |-> tokens.token,
                             refresh_token |-> tokens.refresh_token,
                             created_at |-> t,
                             expires_at |-> tokens.expires_at,
                             last_accessed |-> t]
                 saved == save_session(fs, session, io)
             IN  IF ~saved.res.ok
                 THEN AOut(saved.res, saved.files, <<"generate_tokens", "save_session">>, 2)
                 ELSE AOut(Ok([user |-> user.val, token |-> tokens.token,
                               refresh_token |-> tokens.refresh_token,
                               expires_at |-> tokens.expires_at]),
                           saved.files, <<"generate_tokens", "save_session">>, 2)

login(us, fs, key, identifier, password, jti, t, db, io) ==
    LET user == authenticate(us, identifier, password, db)
    IN  IF ~user.ok
        THEN IF \/ user.err.kind = UserServiceError_AuthenticationFailed.kind
                \/ user.err.kind = UserNotFound.kind
             THEN AOut(Err(AuthenticationFailed), fs, <<>>, 0)
             ELSE AOut(Err(AuthServiceError_UserServiceError(user.err)), fs, <<>>, 0)
        ELSE LET tokens == generate_tokens(user.val, key, jti, t)
                 session == [user_id |-> user.val.id,
                             username |-> user.val.username,
                             email |-> user.val.email,
                             token |-> tokens.token,
                             refresh_token |-> tokens.refresh_token,
                             created_at |-> t,
                             expires_at |-> tokens.expires_at,
                             last_accessed |-> t]
                 saved == save_session(fs, session, io)
             IN  IF ~saved.res.ok
                 THEN AOut(saved.res, saved.files, <<"generate_tokens", "save_session">>, 2)
                 ELSE AOut(Ok([user |-> user.val, token |-> tokens.token,
                               refresh_token |-> tokens.refresh_token,
                               expires_at |-> tokens.expires_at]),
                           saved.files, <<"generate_tokens", "save_session">>, 2)

\* Faulty variant of validate_token: the user is taken from the claims, the
\* users table is not asked.
validate_token_trusts_claims(us, token, key, t, db) ==
    LET token_data == decode_token(token, key, t)
    IN  IF ~token_data.ok THEN token_data
        ELSE IF token_data.val.exp < t THEN Err(InvalidToken)
        ELSE LET user_id == Uuid_parse_str(token_data.val.sub)
             IN  IF ~user_id.ok THEN user_id
                 ELSE Ok([id |-> user_id.val, username |-> token_data.val.username,
                          email |-> token_data.val.email,
                          created_at |-> token_data.val.iat,
                          updated_at |-> token_data.val.iat])

validate_token(us, token, key, t, db) ==
    LET token_data == decode_token(token, key, t)
    IN  IF ~token_data.ok THEN token_data
        ELSE IF token_data.val.exp < t THEN Err(InvalidToken)
        ELSE LET user_id == Uuid_parse_str(token_data.val.sub)
             IN  IF ~user_id.ok THEN user_id
                 ELSE LET user == get_profile(us, user_id.val, db)
                      IN  IF ~user.ok THEN Err(AuthServiceError_UserServiceError(user.err))
                          ELSE user

\* Faulty variant of refresh_token: any refresh token of the session's user
\* that verifies under the key is taken, not only the stored one.
refresh_token_any_valid(fs, key, refresh_token_given, jti, t, io) ==
    LET loaded == load_session(fs)
    IN  IF ~loaded.ok THEN AOut(loaded, fs, <<"load_session">>, 0)
        ELSE LET session == loaded.val
             IN  IF \/ ~decode_token(refresh_token_given, key, t).ok
                    \/ refresh_token_given.sub /= session.refresh_token.sub
                 THEN AOut(Err(InvalidToken), fs, <<"load_session">>, 0)
                 ELSE IF session.expires_at <= t
                 THEN LET cleared == logout(fs, io)
                      IN  IF ~cleared.res.ok
                          THEN AOut(cleared.res, cleared.files, <<"load_session", "logout">>, 0)
                          ELSE AOut(Err(SessionExpired), cleared.files,
                                    <<"load_session", "logout">>, 0)
                 ELSE LET user == [id |-> session.user_id, username |-> session.username,
                                   email |-> session.email,
                                   created_at |-> t, updated_at |-> t]
                          tokens == generate_tokens(user, key, jti, t)
                          updated == [session EXCEPT
                                        !.token = tokens.token,
                                        !.refresh_token = tokens.refresh_token,
                                        !.expires_at = tokens.expires_at,
                                        !.last_accessed = t]
                          saved == save_session(fs, updated, io)
                          steps == <<"load_session", "generate_tokens", "save_session">>
                      IN  IF ~saved.res.ok THEN AOut(saved.res, saved.files, steps, 2)
                          ELSE AOut(Ok([token |-> tokens.token,
                                        refresh_token |-> tokens.refresh_token,
                                        expires_at |-> tokens.expires_at]),
                                    saved.files, steps, 2)

refresh_token(fs, key, refresh_token_given, jti, t, io) ==
    LET loaded == load_session(fs)
    IN  IF ~loaded.ok THEN AOut(loaded, fs, <<"load_session">>, 0)
        ELSE LET session == loaded.val
             IN  IF session.refresh_token /= refresh_token_given
                 THEN AOut(Err(InvalidToken), fs, <<"load_session">>, 0)
                 ELSE IF session.expires_at <= t
                 THEN LET cleared == logout(fs, io)
                      IN  IF ~cleared.res.ok
                          THEN AOut(cleared.res, cleared.files, <<"load_session", "logout">>, 0)
                          ELSE AOut(Err(SessionExpired), cleared.files,
                                    <<"load_session", "logout">>, 0)
                 ELSE LET user == [id |-> session.user_id, username |-> session.username,
                                   email |-> session.email,
                                   created_at |-> t, updated_at |-> t]
                          tokens == generate_tokens(user, key, jti, t)
                          updated == [session EXCEPT
                                        !.token = tokens.token,
                                        !.refresh_token = tokens.refresh_token,
                                        !.expires_at = tokens.expires_at,
                                        !.last_accessed = t]
                          saved == save_session(fs, updated, io)
                          steps == <<"load_session", "generate_tokens", "save_session">>
                      IN  IF ~saved.res.ok THEN AOut(saved.res, saved.files, steps, 2)
                          ELSE AOut(Ok([token |-> tokens.token,
                                        refresh_token |-> tokens.refresh_token,
                                        expires_at |-> tokens.expires_at]),
                                    saved.files, steps, 2)

\* Faulty variant of get_current_session: the stored access token is validated
\* before the session's expiry is looked at.
get_current_session_token_first(us, fs, key, t, db, io) ==
    IF ~exists(fs, SESSION_FILE) THEN AOut(Ok(None), fs, <<>>, 0)
    ELSE
    LET loaded == load_session(fs)
    IN  IF ~loaded.ok THEN AOut(Ok(None), fs, <<"load_session">>, 0)
        ELSE LET session == loaded.val
                 user == validate_token(us, session.token, key, t, db)
                 cleared == logout(fs, io)
                 saved == save_session(fs, [session EXCEPT !.last_accessed = t], io)
             IN  IF ~user.ok \/ session.expires_at <= t
                 THEN IF ~cleared.res.ok
                      THEN AOut(cleared.res, cleared.files,
                                <<"load_session", "validate_token", "logout">>, 0)
                      ELSE AOut(Ok(None), cleared.files,
                                <<"load_session", "validate_token", "logout">>, 0)
                 ELSE IF ~saved.res.ok
                 THEN AOut(saved.res, saved.files,
                           <<"load_session", "validate_token", "save_session">>, 0)
                 ELSE AOut(Ok(Some(user.val)), saved.files,
                           <<"load_session", "validate_token", "save_session">>, 0)

\* Faulty variant of get_current_session: a validated re-access also pushes the
\* session's expiry forward.
get_current_session_sliding_expiry(us, fs, key, t, db, io) ==
    IF ~exists(fs, SESSION_FILE) THEN AOut(Ok(None), fs, <<>>, 0)
    ELSE
    LET loaded == load_session(fs)
    IN  IF ~loaded.ok THEN AOut(Ok(None), fs, <<"load_session">>, 0)
        ELSE LET session == loaded.val
             IN  IF session.expires_at <= t
                 THEN LET cleared == logout(fs, io)
                      IN  IF ~cleared.res.ok
                          THEN AOut(cleared.res, cleared.files, <<"load_session", "logout">>, 0)
                          ELSE AOut(Ok(None), cleared.files, <<"load_session", "logout">>, 0)
                 ELSE LET user == validate_token(us, session.token, key, t, db)
                      IN  IF user.ok
                          THEN LET updated_session == [session EXCEPT !.last_accessed = t,
                                                        !.expires_at = t + Duration_days(REFRESH_TOKEN_EXPIRY_DAYS)]
                                   saved == save_session(fs, updated_session, io)
                                   steps == <<"load_session", "validate_token", "save_session">>
                               IN  IF ~saved.res.ok THEN AOut(saved.res, saved.files, steps, 0)
                                   ELSE AOut(Ok(Some(user.val)), saved.files, steps, 0)
                          ELSE LET cleared == logout(fs, io)
                                   steps == <<"load_session", "validate_token", "logout">>
                               IN  IF ~cleared.res.ok
                                   THEN AOut(cleared.res, cleared.files, steps, 0)
                                   ELSE AOut(Ok(None), cleared.files, steps, 0)

\* Faulty variant of get_current_session: a session whose stored access token
\* fails validation is reported as none but left in place.
get_current_session_keeps_invalid(us, fs, key, t, db, io) ==
    IF ~exists(fs, SESSION_FILE) THEN AOut(Ok(None), fs, <<>>, 0)
    ELSE
    LET loaded == load_session(fs)
    IN  IF ~loaded.ok THEN AOut(Ok(None), fs, <<"load_session">>, 0)
        ELSE LET session == loaded.val
             IN  IF session.expires_at <= t
                 THEN LET cleared == logout(fs, io)
                      IN  IF ~cleared.res.ok
                          THEN AOut(cleared.res, cleared.files, <<"load_session", "logout">>, 0)
                          ELSE AOut(Ok(None), cleared.files, <<"load_session", "logout">>, 0)
                 ELSE LET user == validate_token(us, session.token, key, t, db)
                      IN  IF user.ok
                          THEN LET updated_session == [session EXCEPT !.last_accessed = t]
                                   saved == save_session(fs, updated_session, io)
                                   steps == <<"load_session", "validate_token", "save_session">>
                               IN  IF ~saved.res.ok THEN AOut(saved.res, saved.files, steps, 0)
                                   ELSE AOut(Ok(Some(user.val)), saved.files, steps, 0)
                          ELSE AOut(Ok(None), fs, <<"load_session", "validate_token">>, 0)

get_current_session(us, fs, key, t, db, io) ==
    IF ~exists(fs, SESSION_FILE) THEN AOut(Ok(None), fs, <<>>, 0)
    ELSE
    LET loaded == load_session(fs)
    IN  IF ~loaded.ok THEN AOut(Ok(None), fs, <<"load_session">>, 0)
        ELSE LET session == loaded.val
             IN  IF session.expires_at <= t
                 THEN LET cleared == logout(fs, io)
                      IN  IF ~cleared.res.ok
                          THEN AOut(cleared.res, cleared.files, <<"load_session", "logout">>, 0)
                          ELSE AOut(Ok(None), cleared.files, <<"load_session", "logout">>, 0)
                 ELSE LET user == validate_token(us, session.token, key, t, db)
                      IN  IF user.ok
                          THEN LET updated_session == [session EXCEPT !.last_accessed = t]
                                   saved == save_session(fs, updated_session, io)
                                   steps == <<"load_session", "validate_token", "save_session">>
                               IN  IF ~saved.res.ok THEN AOut(saved.res, saved.files, steps, 0)
                                   ELSE AOut(Ok(Some(user.val)), saved.files, steps, 0)
                          ELSE LET cleared == logout(fs, io)
                                   steps == <<"load_session", "validate_token", "logout">>
                               IN  IF ~cleared.res.ok
                                   THEN AOut(cleared.res, cleared.files, steps, 0)
                                   ELSE AOut(Ok(None), cleared.files, steps, 0)

is_authenticated(us, fs, key, t, db, io) ==
    LET session == get_current_session(us, fs, key, t, db, io)
    IN  [session EXCEPT !.res = IF session.res.ok THEN IsSome(session.res.val) ELSE FALSE]

get_current_user(us, fs, key, t, db, io) ==
    LET session == get_current_session(us, fs, key, t, db, io)
    IN  IF ~session.res.ok THEN session
        ELSE IF session.res.val = None
        THEN [session EXCEPT !.res = Err(SessionNotFound)]
        ELSE [session EXCEPT !.res = Ok(Unwrap(session.res.val))]

----------------------------------------------------------------------------
(* Inputs of the auth side *)

MaxUsers == 2

MaxTokens == 4

MaxAuthTicks == 1

\* clock advances, in hours: the access token's lifetime, one hour more, the
\* refresh token's lifetime
AuthTickSteps ==
    {Duration_hours(TOKEN_EXPIRY_HOURS), Duration_hours(TOKEN_EXPIRY_HOURS) + 1,
     Duration_days(REFRESH_TOKEN_EXPIRY_DAYS)}

Secrets == {"k1", "k2"}

UserIds == 1..MaxUsers

\* <<db, io>>: no failure, the database failing, the file system failing
FaultCases == {<<FALSE, FALSE>>, <<TRUE, FALSE>>, <<FALSE, TRUE>>}

RegisterInputs ==
    {<<Name_alice, Email_alice, Pw_1>>,
     <<Name_bob, Email_bob, Pw_2>>,
     <<Name_alice, Email_carol, Pw_1>>,
     <<Name_bob, Email_alice, Pw_2>>,
     <<Name_short, Email_carol, Pw_1>>,
     <<Name_bob, Email_bad, Pw_1>>,
     <<Name_bob, Email_bob, Pw_short>>,
     <<Name_bob, Email_bob, Pw_letters>>}

\* <<identifier, password>>
Credentials ==
    {<<Name_alice, Pw_1>>, <<Name_alice, Pw_2>>, <<Name_bob, Pw_2>>,
     <<Email_alice, Pw_1>>, <<<<>>, Pw_1>>, <<Name_alice, <<>>>>}

UserUpdate(email, password) ==
    [email |-> email, password |-> password, password_hash |-> None]

UserUpdates ==
    {UserUpdate(Some(Email_carol), None),
     UserUpdate(Some(Email_alice), Some(Pw_2)),
     UserUpdate(Some(Email_bad), None),
     UserUpdate(None, Some(Pw_2))}

----------------------------------------------------------------------------
(* State machine of the auth side: one CLI user, one session directory, the
   AuthService rebuilt at every restart *)

task_vars == <<backend, tasks, next_id, task>>

\* what an auth call found: the users table, the session directory, the secret,
\* the tokens handed out so far
AuthPre ==
    [users |-> users, files |-> files, jwt_secret |-> jwt_secret, issued |-> issued]

AuthCall(op, arg, db, io, res, steps) ==
    [op |-> op, user |-> "cli", arg |-> arg, pre |-> AuthPre, res |-> res,
     steps |-> steps, db |-> db, io |-> io]

InitAuth ==
    /\ backend = "none"
    /\ tasks = EmptyStore
    /\ next_id = 1
    /\ now = 0
    /\ ticks = 0
    /\ task = None
    /\ last = NoCall
    /\ users = NoRows
    /\ next_user_id = 1
    /\ files = NoRows
    /\ jwt_secret = "k1"
    /\ minted = 0
    /\ issued = {}
    /\ cli = NoCli

AuthTick ==
    /\ Idle
    /\ ticks < MaxAuthTicks
    /\ \E step \in AuthTickSteps : now' = now + step
    /\ ticks' = ticks + 1
    /\ UNCHANGED <<task_vars, last, auth_vars>>

\* AuthService::new over the same session directory
Restart ==
    /\ Idle
    /\ \E secret \in Secrets : jwt_secret' = secret
    /\ UNCHANGED <<task_vars, cli, now, ticks, last, users, next_user_id, files, minted, issued>>

\* something other than the program rewrites the session file
CorruptSessionFile ==
    /\ Idle
    /\ exists(files, SESSION_FILE)
    /\ files' = write(files, SESSION_FILE, NotASession)
    /\ UNCHANGED <<task_vars, cli, now, ticks, last, users, next_user_id, jwt_secret, minted, issued>>

\* bound: the users table is set up and changed before the clock advances
Register ==
    /\ Idle /\ ticks = 0
    /\ next_user_id <= MaxUsers
    /\ \E input \in RegisterInputs, db \in BOOLEAN :
         LET request == [username |-> input[1], email |-> input[2],
                         password |-> input[3], password_hash |-> hash(input[3])]
             out == register(users, request, next_user_id, now, db)
         IN  /\ users' = out.users
             /\ next_user_id' = IF out.res.ok THEN next_user_id + 1 ELSE next_user_id
             /\ last' = AuthCall("register", request, db, FALSE, out.res, <<>>)
    /\ UNCHANGED <<task_vars, cli, now, ticks, files, jwt_secret, minted, issued>>

UpdateProfile ==
    /\ Idle /\ ticks = 0
    /\ \E user_id \in UserIds, updates \in UserUpdates, db \in BOOLEAN :
         LET out == update_profile(users, user_id, updates, now, db)
         IN  /\ users' = out.users
             /\ last' = AuthCall("update_profile", <<user_id, updates>>, db, FALSE,
                                 out.res, <<>>)
    /\ UNCHANGED <<task_vars, cli, now, ticks, next_user_id, files, jwt_secret, minted, issued>>

DeleteAccount ==
    /\ Idle /\ ticks = 0
    /\ \E user_id \in UserIds, db \in BOOLEAN :
         LET out == delete_account(users, user_id, db)
         IN  /\ users' = out.users
             /\ last' = AuthCall("delete_account", user_id, db, FALSE, out.res, <<>>)
    /\ UNCHANGED <<task_vars, cli, now, ticks, next_user_id, files, jwt_secret, minted, issued>>

Login ==
    /\ Idle
    /\ minted + 2 <= MaxTokens
    /\ \E credentials \in Credentials, fault \in FaultCases :
         LET identifier == credentials[1]
             password == credentials[2]
             out == login(users, files, jwt_secret, identifier, password, minted, now,
                          fault[1], fault[2])
         IN  /\ files' = out.files
             /\ minted' = minted + out.minted
             /\ issued' = IF out.res.ok
                          THEN issued \cup {out.res.val.token, out.res.val.refresh_token}
                          ELSE issued
             /\ last' = AuthCall("login", <<identifier, password>>, fault[1], fault[2],
                                 out.res, out.steps)
    /\ UNCHANGED <<task_vars, cli, now, ticks, users, next_user_id, jwt_secret>>

Logout ==
    /\ Idle
    /\ \E io \in BOOLEAN :
         LET out == logout(files, io)
         IN  /\ files' = out.files
             /\ last' = AuthCall("logout", <<>>, FALSE, io, out.res, out.steps)
    /\ UNCHANGED <<task_vars, cli, now, ticks, users, next_user_id, jwt_secret, minted, issued>>

ValidateToken ==
    /\ Idle
    /\ \E token \in issued \cup {MalformedToken}, db \in BOOLEAN :
         last' = AuthCall("validate_token", token, db, FALSE,
                          validate_token(users, token, jwt_secret, now, db), <<>>)
    /\ UNCHANGED <<task_vars, now, ticks, auth_vars>>

\* bound: a call that would mint beyond MaxTokens is not made
RefreshToken ==
    /\ Idle
    /\ \E token \in issued \cup {MalformedToken}, io \in BOOLEAN :
         LET out == refresh_token(files, jwt_secret, token, minted, now, io)
         IN  /\ minted + out.minted <= MaxTokens
             /\ files' = out.files
             /\ minted' = minted + out.minted
             /\ issued' = IF out.res.ok
                          THEN issued \cup {out.res.val.token, out.res.val.refresh_token}
                          ELSE issued
             /\ last' = AuthCall("refresh_token", token, FALSE, io, out.res, out.steps)
    /\ UNCHANGED <<task_vars, cli, now, ticks, users, next_user_id, jwt_secret>>

GetCurrentSession ==
    /\ Idle
    /\ \E fault \in FaultCases :
         LET out == get_current_session(users, files, jwt_secret, now, fault[1], fault[2])
         IN  /\ files' = out.files
             /\ last' = AuthCall("get_current_session", <<>>, fault[1], fault[2],
                                 out.res, out.steps)
    /\ UNCHANGED <<task_vars, cli, now, ticks, users, next_user_id, jwt_secret, minted, issued>>

GetCurrentUser ==
    /\ Idle
    /\ \E fault \in FaultCases :
         LET out == get_current_user(users, files, jwt_secret, now, fault[1], fault[2])
         IN  /\ files' = out.files
             /\ last' = AuthCall("get_current_user", <<>>, fault[1], fault[2],
                                 out.res, out.steps)
    /\ UNCHANGED <<task_vars, cli, now, ticks, users, next_user_id, jwt_secret, minted, issued>>

IsAuthenticated ==
    /\ Idle
    /\ \E fault \in FaultCases :
         LET out == is_authenticated(users, files, jwt_secret, now, fault[1], fault[2])
         IN  /\ files' = out.files
             /\ last' = AuthCall("is_authenticated", <<>>, fault[1], fault[2],
                                 out.res, out.steps)
    /\ UNCHANGED <<task_vars, cli, now, ticks, users, next_user_id, jwt_secret, minted, issued>>

NextAuth ==
    \/ Return
    \/ AuthTick
    \/ Restart
    \/ CorruptSessionFile
    \/ Register
    \/ UpdateProfile
    \/ DeleteAccount
    \/ Login
    \/ Logout
    \/ ValidateToken
    \/ RefreshToken
    \/ GetCurrentSession
    \/ GetCurrentUser
    \/ IsAuthenticated

SpecAuth == InitAuth /\ [][NextAuth]_vars

----------------------------------------------------------------------------
(* State machine of CLI invocations running side by side over one session
   directory.  Each invocation is a process of its own; nothing orders their
   file system calls.  get_current_session is taken one call at a time:
   load_session, validate_token, then save_session or logout.  login and
   logout touch the session file once, at their end. *)

\* every process that has loaded the session and not yet written it back has
\* been overtaken when process p removes the session file
Overtake(p, removed) ==
    [q \in Procs |->
        IF q /= p /\ removed /\ cli[q].pc \in {"loaded", "save"}
        THEN [cli[q] EXCEPT !.overtaken = TRUE]
        ELSE cli[q]]

InitRace == InitAuth

CliRegister ==
    /\ users = NoRows
    /\ LET request == [username |-> Name_alice, email |-> Email_alice,
                       password |-> Pw_1, password_hash |-> hash(Pw_1)]
           out == register(users, request, next_user_id, now, FALSE)
       IN  /\ users' = out.users
           /\ next_user_id' = IF out.res.ok THEN next_user_id + 1 ELSE next_user_id
           /\ last' = AuthCall("register", request, FALSE, FALSE, out.res, <<>>)
    /\ UNCHANGED <<task_vars, cli, now, ticks, files, jwt_secret, minted, issued>>

\* bound: a call that would mint beyond MaxTokens is not made
CliLogin(p) ==
    /\ cli[p].pc = "idle"
    /\ minted + 2 <= MaxTokens
    /\ \E io \in BOOLEAN :
         LET out == login(users, files, jwt_secret, Name_alice, Pw_1, minted, now,
                          FALSE, io)
         IN  /\ files' = out.files
             /\ minted' = minted + out.minted
             /\ issued' = IF out.res.ok
                          THEN issued \cup {out.res.val.token, out.res.val.refresh_token}
                          ELSE issued
             /\ last' = AuthCall("login", <<p>>, FALSE, io, out.res, out.steps)
    /\ UNCHANGED <<task_vars, cli, now, ticks, users, next_user_id, jwt_secret>>

CliLogout(p) ==
    /\ cli[p].pc = "idle"
    /\ \E io \in BOOLEAN :
         LET out == logout(files, io)
         IN  /\ files' = out.files
             /\ cli' = Overtake(p, out.res.ok /\ exists(files, SESSION_FILE))
             /\ last' = AuthCall("logout", <<p>>, FALSE, io, out.res, out.steps)
    /\ UNCHANGED <<task_vars, now, ticks, users, next_user_id, jwt_secret, minted, issued>>

\* get_current_session up to the expiry check: no file, or an unreadable one,
\* ends the call with none
GcsLoad(p) ==
    /\ cli[p].pc = "idle"
    /\ LET loaded == load_session(files)
       IN  /\ cli' = [cli EXCEPT ![p] =
                        IF ~loaded.ok THEN NoProc
                        ELSE [pc |-> IF loaded.val.expires_at <= now
                                     THEN "clear" ELSE "loaded",
                              session |-> Some(loaded.val),
                              overtaken |-> FALSE,
                              request |-> <<>>]]
           /\ last' = AuthCall("load_session", <<p>>, FALSE, FALSE,
                               IF loaded.ok THEN loaded ELSE Ok(None),
                               <<"load_session">>)
    /\ UNCHANGED <<task_vars, now, ticks, users, next_user_id, files, jwt_secret,
                   minted, issued>>

GcsValidate(p) ==
    /\ cli[p].pc = "loaded"
    /\ \E db \in BOOLEAN :
         LET user == validate_token(users, Unwrap(cli[p].session).token, jwt_secret,
                                    now, db)
         IN  /\ cli' = [cli EXCEPT ![p].pc = IF user.ok THEN "save" ELSE "clear"]
             /\ last' = AuthCall("validate_token", <<p>>, db, FALSE, user,
                                 <<"validate_token">>)
    /\ UNCHANGED <<task_vars, now, ticks, users, next_user_id, files, jwt_secret,
                   minted, issued>>

\* Faulty variant of GcsSave: the session is written back only where the file
\* is still there, as it would be were the file held locked since the load.
GcsSave_skips_removed(p) ==
    /\ cli[p].pc = "save"
    /\ \E io \in BOOLEAN :
         LET updated_session == [Unwrap(cli[p].session) EXCEPT !.last_accessed = now]
             saved == save_session(files, updated_session, io)
         IN  /\ files' = IF exists(files, SESSION_FILE) THEN saved.files ELSE files
             /\ cli' = [cli EXCEPT ![p].pc = "idle", ![p].session = None]
             /\ last' = AuthCall("save_session", <<p, updated_session>>, FALSE, io,
                                 saved.res, saved.steps)
    /\ UNCHANGED <<task_vars, now, ticks, users, next_user_id, jwt_secret, minted, issued>>

GcsSave(p) ==
    /\ cli[p].pc = "save"
    /\ \E io \in BOOLEAN :
         LET updated_session == [Unwrap(cli[p].session) EXCEPT !.last_accessed = now]
             saved == save_session(files, updated_session, io)
         IN  /\ files' = saved.files
             /\ cli' = [cli EXCEPT ![p].pc = "idle", ![p].session = None]
             /\ last' = AuthCall("save_session", <<p, updated_session>>, FALSE, io,
                                 saved.res, saved.steps)
    /\ UNCHANGED <<task_vars, now, ticks, users, next_user_id, jwt_secret, minted, issued>>

GcsClear(p) ==
    /\ cli[p].pc = "clear"
    /\ \E io \in BOOLEAN :
         LET cleared == logout(files, io)
             others == Overtake(p, cleared.res.ok /\ exists(files, SESSION_FILE))
         IN  /\ files' = cleared.files
             /\ cli' = [others EXCEPT ![p] = NoProc]
             /\ last' = AuthCall("clear_session", <<p>>, FALSE, io, cleared.res,
                                 cleared.steps)
    /\ UNCHANGED <<task_vars, now, ticks, users, next_user_id, jwt_secret, minted, issued>>

RaceTick ==
    /\ ticks < MaxAuthTicks
    /\ \E step \in AuthTickSteps : now' = now + step
    /\ ticks' = ticks + 1
    /\ UNCHANGED <<task_vars, last, auth_vars>>

NextRace ==
    \/ CliRegister
    \/ RaceTick
    \/ \E p \in Procs : CliLogin(p)
    \/ \E p \in Procs : CliLogout(p)
    \/ \E p \in Procs : GcsLoad(p)
    \/ \E p \in Procs : GcsValidate(p)
    \/ \E p \in Procs : GcsSave(p)
    \/ \E p \in Procs : GcsClear(p)

SpecRace == InitRace /\ [][NextRace]_vars

----------------------------------------------------------------------------

(* State machine of register calls running side by side over one users table.
   A register call makes its queries one at a time: the service's
   check_user_uniqueness, the repository's own existence checks in store, and
   the INSERT, which the table's UNIQUE constraints on username and email
   (tests/user_repository_tests.rs) can refuse. *)

ConcurrentRegisterInputs ==
    {<<Name_alice, Email_alice, Pw_1>>,
     <<Name_alice, Email_carol, Pw_2>>,
     <<Name_bob, Email_alice, Pw_2>>}

\* Faulty variant of insert_user: a table without the UNIQUE constraints.
insert_user_unconstrained(us, row) == UOut(Ok(row), Insert(us, row))

\* INSERT INTO users ... RETURNING, under UNIQUE (username) and UNIQUE (email)
insert_user(us, row) ==
    IF \E i \in DOMAIN us : us[i].username = row.username \/ us[i].email = row.email
    THEN UOut(Err(UserRepositoryError_DatabaseError), us)
    ELSE UOut(Ok(row), Insert(us, row))

InitRegister == InitAuth

\* validate_registration_request and check_user_uniqueness
RegCheck(p) ==
    /\ cli[p].pc = "idle"
    /\ \E input \in ConcurrentRegisterInputs :
         LET request == [username |-> input[1], email |-> input[2],
                         password |-> input[3], password_hash |-> hash(input[3])]
             unique == IF ~StoreUserRequest_validate(request)
                       THEN Err(UserServiceError_ValidationError)
                       ELSE check_user_uniqueness(users, request, FALSE)
         IN  /\ cli' = [cli EXCEPT ![p] =
                          IF unique.ok
                          THEN [NoProc EXCEPT !.pc = "checked", !.request = request]
                          ELSE NoProc]
             /\ last' = AuthCall(IF unique.ok THEN "check_user_uniqueness" ELSE "register",
                                 <<p, request>>, FALSE, FALSE, unique,
                                 <<"check_user_uniqueness">>)
    /\ UNCHANGED <<task_vars, now, ticks, users, next_user_id, files, jwt_secret,
                   minted, issued>>

\* the existence checks PostgresUserRepository::store makes before its INSERT
RegStoreCheck(p) ==
    /\ cli[p].pc = "checked"
    /\ LET stored == User_store(users, cli[p].request, next_user_id, now, FALSE)
       IN  /\ cli' = [cli EXCEPT ![p] =
                        IF stored.res.ok THEN [cli[p] EXCEPT !.pc = "insert"]
                        ELSE NoProc]
           /\ last' = AuthCall(IF stored.res.ok THEN "store" ELSE "register",
                               <<p, cli[p].request>>, FALSE, FALSE,
                               IF stored.res.ok THEN Ok(<<>>)
                               ELSE Err(UserServiceError_RepositoryError(stored.res.err)),
                               <<"check_user_uniqueness", "store">>)
    /\ UNCHANGED <<task_vars, now, ticks, users, next_user_id, files, jwt_secret,
                   minted, issued>>

\* bound: no more than MaxUsers + 1 rows are ever asked for
RegInsert(p) ==
    /\ cli[p].pc = "insert"
    /\ next_user_id <= MaxUsers + 1
    /\ LET user == cli[p].request
           row == [id |-> next_user_id, username |-> user.username,
                   email |-> user.email, password_hash |-> user.password_hash,
                   created_at |-> now, updated_at |-> now]
           inserted == insert_user(users, row)
       IN  /\ users' = inserted.users
           /\ next_user_id' = IF inserted.res.ok THEN next_user_id + 1
                              ELSE next_user_id
           /\ cli' = [cli EXCEPT ![p] = NoProc]
           /\ last' = AuthCall("register", <<p, user>>, FALSE, FALSE,
                               IF inserted.res.ok THEN Ok(to_response(inserted.res.val))
                               ELSE Err(UserServiceError_RepositoryError(inserted.res.err)),
                               <<"check_user_uniqueness", "store", "insert">>)
    /\ UNCHANGED <<task_vars, now, ticks, files, jwt_secret, minted, issued>>

NextRegister ==
    \/ \E p \in Procs : RegCheck(p)
    \/ \E p \in Procs : RegStoreCheck(p)
    \/ \E p \in Procs : RegInsert(p)

SpecRegister == InitRegister /\ [][NextRegister]_vars

----------------------------------------------------------------------------

(* Properties *)

ServiceOps ==
    {"create_task", "get_tasks", "get_task", "update_task", "delete_task",
     "complete_task", "get_overdue_tasks", "get_task_statistics",
     "bulk_update_status", "bulk_delete_tasks", "search_tasks"}

OwnedBy(ts, u) == {x \in Rows(ts) : x.user_id = u}

CompletedAtMatchesStatus(x) == IsSome(x.completed_at) <=> x.status = Completed

\* C1: in every reachable state, every task of the store and every Task object
\* has completed_at present if and only if its status is Completed.
C1_CompletedAtIffCompleted ==
    /\ \A id \in DOMAIN tasks : CompletedAtMatchesStatus(tasks[id])
    /\ IsSome(task) => CompletedAtMatchesStatus(Unwrap(task))

\* C1 witness: Task::update has moved a Completed task to another status.
C1_Witness ==
    /\ last.op = "Task::update"
    /\ Unwrap(last.pre).status = Completed
    /\ Unwrap(task).status /= Completed
    /\ Unwrap(task).completed_at = None

\* C2: get_task returns the task to its owner, AccessDenied to any other user,
\* TaskNotFound for an id no task has, and leaves the store as it found it; a
\* task just created by create_task(A, req) is seen that way by A and by others.
C2_GetTaskOwnership ==
    /\ last.op = "get_task" =>
         /\ tasks = last.pre
         /\ IF last.arg \notin DOMAIN tasks THEN last.res = Err(TaskNotFound)
            ELSE IF tasks[last.arg].user_id = last.user
                 THEN last.res = Ok(tasks[last.arg])
                 ELSE last.res = Err(AccessDenied)
    /\ (last.op = "create_task" /\ last.res.ok) =>
         \A u \in Users :
            get_task(backend, tasks, u, last.res.val.id) =
                IF u = last.user THEN Ok(last.res.val) ELSE Err(AccessDenied)

\* C2 witness: a user asked for a task that exists and belongs to someone else.
C2_Witness ==
    /\ last.op = "get_task"
    /\ last.arg \in DOMAIN tasks
    /\ tasks[last.arg].user_id /= last.user
    /\ ~last.res.ok

ResultTasks(call) ==
    IF ~call.res.ok THEN {}
    ELSE IF call.op \in {"get_tasks", "get_overdue_tasks", "search_tasks"} THEN call.res.val
    ELSE IF call.op \in {"get_task", "create_task", "update_task", "complete_task"}
         THEN {call.res.val}
    ELSE IF call.op = "bulk_update_status"
         THEN {call.res.val[i] : i \in 1..Len(call.res.val)}
    ELSE {}

\* C3: a TaskService call made with owner B leaves every task of another user
\* in the store unchanged, returns no task of another user, and counts none.
C3_CrossUserIsolation ==
    last.op \in ServiceOps =>
        /\ \A id \in DOMAIN last.pre :
              last.pre[id].user_id /= last.user =>
                  id \in DOMAIN tasks /\ tasks[id] = last.pre[id]
        /\ \A x \in ResultTasks(last) : x.user_id = last.user
        /\ (last.op = "get_task_statistics" =>
              last.res.val.total_tasks = Cardinality(OwnedBy(last.pre, last.user)))
        /\ (last.op = "bulk_delete_tasks" /\ last.res.ok =>
              last.res.val = Cardinality(OwnedBy(last.pre, last.user))
                             - Cardinality(OwnedBy(tasks, last.user)))

\* C3 witness: a bulk update by B that named a task of A succeeded for B's own.
C3_Witness ==
    /\ last.op = "bulk_update_status"
    /\ last.res.ok
    /\ Len(last.res.val) > 0
    /\ \E i \in 1..Len(last.arg[1]) :
          /\ last.arg[1][i] \in DOMAIN last.pre
          /\ last.pre[last.arg[1][i]].user_id /= last.user

WriteRequest(call) == IF call.op = "create_task" THEN call.arg ELSE call.arg[2]

OtherwiseValid(call) ==
    IF call.op = "create_task" THEN StoreTaskRequest_validate(call.arg)
    ELSE /\ UpdateTaskRequest_validate(call.arg[2])
         /\ call.arg[1] \in DOMAIN call.pre
         /\ call.pre[call.arg[1]].user_id = call.user

\* C4: create_task and update_task reject a due date that is present and not
\* after now with ValidationError and an unchanged store; they accept a request
\* whose due date is after now and that is otherwise valid (for update_task, on
\* an owned task); every due date they write is after now.
C4_DueDateStrictlyFuture ==
    last.op \in {"create_task", "update_task"} =>
        LET due == WriteRequest(last).due_date
        IN  /\ (IsSome(due) /\ Unwrap(due) <= now) =>
                 /\ ~last.res.ok
                 /\ last.res.err.kind = "ValidationError"
                 /\ tasks = last.pre
            /\ (IsSome(due) /\ Unwrap(due) > now /\ OtherwiseValid(last)) =>
                 /\ last.res.ok
                 /\ last.res.val.due_date = due
                 /\ tasks[last.res.val.id] = last.res.val
            /\ \A id \in DOMAIN tasks :
                 (IsSome(tasks[id].due_date)
                    /\ (id \in DOMAIN last.pre => last.pre[id].due_date /= tasks[id].due_date))
                 => Unwrap(tasks[id].due_date) > now

\* C5: get_tasks with a status-only filter returns exactly the owner's tasks
\* that have that status, which is also what the in-memory filter makes of all
\* of the owner's tasks.
C5_StatusFastPathIsExact ==
    (/\ last.op = "get_tasks"
     /\ IsSome(last.arg.status) /\ last.arg.priority = None
     /\ ~last.arg.overdue_only /\ last.arg.search_term = None) =>
        /\ last.res =
             Ok({x \in Rows(tasks) :
                   x.user_id = last.user /\ x.status = Unwrap(last.arg.status)})
        /\ last.res =
             Ok(apply_complex_filter(
                   repo_find_by_user_id(backend, tasks, last.user), last.arg, now))

\* C5 witness: a status-only query returned some but not all of the owner's tasks.
C5_Witness ==
    /\ last.op = "get_tasks"
    /\ IsSome(last.arg.status) /\ last.arg.priority = None
    /\ ~last.arg.overdue_only /\ last.arg.search_term = None
    /\ last.res.val /= {}
    /\ last.res.val /= OwnedBy(tasks, last.user)

IsFastPathFilter(f) ==
    \/ IsSome(f.status) /\ f.priority = None /\ ~f.overdue_only /\ f.search_term = None
    \/ f.status = None /\ f.priority = None /\ f.overdue_only /\ f.search_term = None
    \/ f.status = None /\ f.priority = None /\ ~f.overdue_only /\ IsSome(f.search_term)

SameLetter(c, d) ==
    \/ c = d
    \/ {c, d} = {"a", "A"}
    \/ {c, d} = {"b", "B"}

OccursIgnoringCase(term, s) ==
    \E off \in 0..(Len(s) - Len(term)) :
        \A k \in 1..Len(term) : SameLetter(term[k], s[off + k])

MatchesEveryPredicate(x, f, t) ==
    /\ (IsSome(f.status) => x.status = Unwrap(f.status))
    /\ (IsSome(f.priority) => x.priority = Unwrap(f.priority))
    /\ (f.overdue_only => IsSome(x.due_date) /\ Unwrap(x.due_date) < t)
    /\ (IsSome(f.search_term) =>
          \/ OccursIgnoringCase(Unwrap(f.search_term), x.title)
          \/ IsSome(x.description)
               /\ OccursIgnoringCase(Unwrap(f.search_term), Unwrap(x.description)))

\* C6: for a filter that takes no fast path, get_tasks returns exactly the
\* owner's tasks on which every predicate the filter carries holds; with the
\* empty filter, all of the owner's tasks.
C6_ComplexFilterIsConjunctive ==
    (last.op = "get_tasks" /\ ~IsFastPathFilter(last.arg)) =>
        /\ last.res =
             Ok({x \in OwnedBy(tasks, last.user) : MatchesEveryPredicate(x, last.arg, now)})
        /\ (last.arg = Filter(None, None, FALSE, None) =>
              last.res = Ok(OwnedBy(tasks, last.user)))

\* C6 witness: a query with status, overdue and search predicates kept one of
\* the owner's two tasks.
C6_Witness ==
    /\ last.op = "get_tasks"
    /\ IsSome(last.arg.status) /\ last.arg.overdue_only /\ IsSome(last.arg.search_term)
    /\ Cardinality(last.res.val) = 1
    /\ Cardinality(OwnedBy(tasks, last.user)) = 2

\* C7: bulk_update_status fails with BulkOperationPartialFailure (failed_count =
\* total_count = |ids|) exactly when ids is non-empty and every update failed;
\* otherwise it returns, in order, one task per id whose update succeeded, each
\* with the new status, so that failures + returned tasks = |ids|.
C7_BulkUpdateAllOrSome ==
    last.op = "bulk_update_status" =>
        LET ids == last.arg[1]
            new_status == last.arg[2]
            Succeeds(id) ==
                repo_update(backend, last.pre, id, last.user,
                            StatusOnly(new_status), now).res.ok
            succeeded == SelectSeq(ids, Succeeds)
            failed == Len(ids) - Len(succeeded)
        IN  /\ ~last.res.ok <=> (Len(ids) > 0 /\ failed = Len(ids))
            /\ ~last.res.ok =>
                  last.res.err = BulkOperationPartialFailure(Len(ids), Len(ids))
            /\ last.res.ok =>
                  /\ Len(last.res.val) + failed = Len(ids)
                  /\ [k \in 1..Len(last.res.val) |-> last.res.val[k].id] = succeeded
                  /\ \A k \in 1..Len(last.res.val) :
                        /\ last.res.val[k].status = new_status
                        /\ tasks[last.res.val[k].id].status = new_status

\* C7 witness: a bulk update in which one id succeeded and another failed.
C7_Witness ==
    /\ last.op = "bulk_update_status"
    /\ last.res.ok
    /\ Len(last.res.val) = 1
    /\ Len(last.arg[1]) = 2

\* the due-date rule as it holds of the in-memory repository (see C4)
DueDateRuleOnMock == backend = "mock" => C4_DueDateStrictlyFuture

HasSession(fs) == exists(fs, SESSION_FILE) /\ from_str(fs[SESSION_FILE]).ok

StoredSession(fs) == from_str(fs[SESSION_FILE]).val

NoFault(call) == ~call.db /\ ~call.io

\* the session a get_current_session call found was written under the secret
\* of the AuthService that now reads it, has not expired, and its user exists
UsableSessionFound(call, t) ==
    /\ call.op = "get_current_session"
    /\ NoFault(call)
    /\ HasSession(call.pre.files)
    /\ StoredSession(call.pre.files).token.sig = call.pre.jwt_secret
    /\ StoredSession(call.pre.files).expires_at > t
    /\ StoredSession(call.pre.files).user_id \in DOMAIN call.pre.users

ReturnsSessionUser(call) ==
    /\ call.res.ok
    /\ call.res.val =
         Some(to_response(call.pre.users[StoredSession(call.pre.files).user_id]))

C9_ExpiredSessionIsCleared ==
    (/\ last.op = "get_current_session"
     /\ ~last.io
     /\ HasSession(last.pre.files)
     /\ StoredSession(last.pre.files).expires_at <= now) =>
        /\ last.res.ok /\ last.res.val = None
        /\ ~exists(files, SESSION_FILE)
        /\ \A k \in 1..Len(last.steps) : last.steps[k] /= "validate_token"

\* C9 witness: get_current_session met a session at the very hour it expires.
C9_Witness ==
    /\ last.op = "get_current_session"
    /\ ~last.io
    /\ HasSession(last.pre.files)
    /\ StoredSession(last.pre.files).expires_at = now
    /\ ~exists(files, SESSION_FILE)

\* C10: the session directory never holds more than one session record; and
\* after every successful login the stored session is that of the user who
\* logged in, with exactly the access and refresh tokens the login returned,
\* whatever the session file held before.
C10_SingleSessionIsLastLogin ==
    /\ Cardinality(DOMAIN files) <= 1
    /\ (last.op = "login" /\ last.res.ok) =>
          /\ HasSession(files)
          /\ StoredSession(files).user_id = last.res.val.user.id
          /\ StoredSession(files).username = last.res.val.user.username
          /\ StoredSession(files).email = last.res.val.user.email
          /\ StoredSession(files).token = last.res.val.token
          /\ StoredSession(files).refresh_token = last.res.val.refresh_token

\* C10 witness: a login succeeded while the file held another user's session.
C10_Witness ==
    /\ last.op = "login" /\ last.res.ok
    /\ HasSession(last.pre.files)
    /\ StoredSession(last.pre.files).user_id /= last.res.val.user.id
    /\ StoredSession(files).user_id = last.res.val.user.id

\* C11: logout succeeds from every session state and leaves the session file
\* absent, and a second logout right after succeeds too and changes nothing
\* (given that the file system lets the file be removed).
C11_LogoutIdempotent ==
    (last.op = "logout" /\ ~last.io) =>
        /\ last.res.ok
        /\ ~exists(files, SESSION_FILE)
        /\ logout(files, FALSE).res.ok
        /\ logout(files, FALSE).files = files

\* C11 witness: logout removed a session file that held no readable session.
C11_Witness ==
    /\ last.op = "logout" /\ ~last.io
    /\ exists(last.pre.files, SESSION_FILE)
    /\ ~HasSession(last.pre.files)
    /\ ~exists(files, SESSION_FILE)

\* C12: refresh_token(t) succeeds only when t is the refresh token the session
\* file stores; with a stored session and any other t it fails with InvalidToken
\* and leaves the file as it was; without a session file it fails with
\* SessionNotFound and creates none.
C12_RefreshNeedsStoredToken ==
    last.op = "refresh_token" =>
        /\ last.res.ok =>
              /\ HasSession(last.pre.files)
              /\ last.arg = StoredSession(last.pre.files).refresh_token
        /\ (HasSession(last.pre.files)
              /\ last.arg /= StoredSession(last.pre.files).refresh_token) =>
              /\ ~last.res.ok
              /\ last.res.err.kind = InvalidToken.kind
              /\ files = last.pre.files
        /\ ~exists(last.pre.files, SESSION_FILE) =>
              /\ ~last.res.ok
              /\ last.res.err.kind = SessionNotFound.kind
              /\ files = last.pre.files

\* C12 witness: the session's own access token, valid under the key, was
\* presented as refresh token and refused.
C12_Witness ==
    /\ last.op = "refresh_token"
    /\ HasSession(last.pre.files)
    /\ last.arg = StoredSession(last.pre.files).token
    /\ decode_token(last.arg, last.pre.jwt_secret, now).ok
    /\ ~last.res.ok
    /\ files = last.pre.files

IsRefreshToken(token) ==
    token.exp - token.iat = Duration_days(REFRESH_TOKEN_EXPIRY_DAYS)

\* a token after which a newer one has been handed out
Superseded(token, tokens) == \E newer \in tokens : newer.jti > token.jti

\* C13: a successful refresh_token(t) stores the new refresh token t2, t2 /= t;
\* from then on t is refused (InvalidToken while a session is stored), as is
\* every refresh token superseded by a later login or refresh, while the stored
\* refresh token is accepted as long as the session has not expired.
C13_RefreshTokenRotation ==
    /\ (last.op = "refresh_token" /\ last.res.ok) =>
          /\ StoredSession(files).refresh_token = last.res.val.refresh_token
          /\ last.res.val.refresh_token /= last.arg
          /\ ~refresh_token(files, jwt_secret, last.arg, minted, now, FALSE).res.ok
          /\ refresh_token(files, jwt_secret, last.arg, minted, now, FALSE).res.err.kind
               = InvalidToken.kind
          /\ refresh_token(files, jwt_secret, last.res.val.refresh_token,
                           minted, now, FALSE).res.ok
    /\ (last.op = "refresh_token" /\ Superseded(last.arg, last.pre.issued)) =>
          /\ ~last.res.ok
          /\ HasSession(last.pre.files) => last.res.err.kind = InvalidToken.kind
    /\ (/\ last.op = "refresh_token" /\ ~last.io
        /\ HasSession(last.pre.files)
        /\ last.arg = StoredSession(last.pre.files).refresh_token
        /\ StoredSession(last.pre.files).expires_at > now) => last.res.ok

\* C13 witness: a refresh token that was validly issued and then superseded was
\* presented against the session that superseded it, and refused.
C13_Witness ==
    /\ last.op = "refresh_token"
    /\ last.arg \in last.pre.issued
    /\ IsRefreshToken(last.arg)
    /\ Superseded(last.arg, last.pre.issued)
    /\ HasSession(last.pre.files)
    /\ StoredSession(last.pre.files).refresh_token.sub = last.arg.sub
    /\ ~last.res.ok

\* C14: refresh_token(t) with t the stored refresh token: on a session with
\* expires_at <= now the session file is deleted and SessionExpired returned;
\* with expires_at > now a new access token and a new refresh token are minted,
\* the session is overwritten with them and with the new expiry, and they are
\* returned (given that the file system lets the file be removed or written).
C14_RefreshExpiredOrRenew ==
    (/\ last.op = "refresh_token" /\ ~last.io
     /\ HasSession(last.pre.files)
     /\ last.arg = StoredSession(last.pre.files).refresh_token) =>
        IF StoredSession(last.pre.files).expires_at <= now
        THEN /\ ~last.res.ok
             /\ last.res.err.kind = SessionExpired.kind
             /\ ~exists(files, SESSION_FILE)
        ELSE /\ last.res.ok
             /\ last.res.val.token \notin last.pre.issued
             /\ last.res.val.refresh_token \notin last.pre.issued
             /\ last.res.val.token.exp = now + Duration_hours(TOKEN_EXPIRY_HOURS)
             /\ last.res.val.expires_at = now + Duration_days(REFRESH_TOKEN_EXPIRY_DAYS)
             /\ HasSession(files)
             /\ StoredSession(files).token = last.res.val.token
             /\ StoredSession(files).refresh_token = last.res.val.refresh_token
             /\ StoredSession(files).expires_at = last.res.val.expires_at

\* C14 witness: the stored refresh token was presented in the very hour the
\* session expires, and the session file was removed.
C14_Witness ==
    /\ last.op = "refresh_token" /\ ~last.io
    /\ HasSession(last.pre.files)
    /\ last.arg = StoredSession(last.pre.files).refresh_token
    /\ StoredSession(last.pre.files).expires_at = now
    /\ ~exists(files, SESSION_FILE)

\* the stored access token is not acceptable: wrong signature, expiry passed,
\* its user gone from the users table, or the users table failing
StoredTokenInvalid(call, t) ==
    \/ StoredSession(call.pre.files).token.sig /= call.pre.jwt_secret
    \/ StoredSession(call.pre.files).token.exp < t
    \/ StoredSession(call.pre.files).user_id \notin DOMAIN call.pre.users
    \/ call.db

\* C15: when the session file holds an unexpired session whose stored access
\* token does not validate, for whichever reason, get_current_session returns
\* none and the session file is deleted (given that the file system lets the
\* file be removed).
C15_InvalidTokenClearsSession ==
    (/\ last.op = "get_current_session" /\ ~last.io
     /\ HasSession(last.pre.files)
     /\ StoredSession(last.pre.files).expires_at > now
     /\ StoredTokenInvalid(last, now)) =>
        /\ last.res.ok /\ last.res.val = None
        /\ ~exists(files, SESSION_FILE)

\* C15 witness: the token was good in itself, but the users table failed, or
\* the user was gone, and the session was removed.
C15_Witness ==
    /\ last.op = "get_current_session" /\ ~last.io
    /\ HasSession(last.pre.files)
    /\ StoredSession(last.pre.files).expires_at > now
    /\ decode_token(StoredSession(last.pre.files).token, last.pre.jwt_secret, now).ok
    /\ StoredTokenInvalid(last, now)
    /\ ~exists(files, SESSION_FILE)

UsernameTaken(us, username) == \E i \in DOMAIN us : us[i].username = username

EmailTaken(us, email) == \E i \in DOMAIN us : us[i].email = email

CredentialsMatch(us, identifier, password) ==
    \E i \in DOMAIN us :
        /\ us[i].username = identifier \/ us[i].email = identifier
        /\ us[i].password_hash = hash(password)

\* C17: login returns AuthenticationFailed, and leaves the session file as it
\* was, alike when the identifier matches no user, when the password is wrong,
\* and when identifier or password is empty (database reachable).
C17_LoginFailuresAlike ==
    (/\ last.op = "login"
     /\ \/ last.arg[1] = <<>>
        \/ last.arg[2] = <<>>
        \/ ~last.db /\ ~CredentialsMatch(last.pre.users, last.arg[1], last.arg[2])) =>
        /\ ~last.res.ok
        /\ last.res.err = AuthenticationFailed
        /\ files = last.pre.files

\* C17 witness: a login under an identifier no stored user answers to, made
\* while a session was stored, failed like a wrong password does.
C17_Witness ==
    /\ last.op = "login" /\ ~last.db
    /\ last.arg[1] /= <<>> /\ last.arg[2] /= <<>>
    /\ ~UsernameTaken(last.pre.users, last.arg[1])
    /\ ~EmailTaken(last.pre.users, last.arg[1])
    /\ HasSession(last.pre.files)
    /\ ~last.res.ok

\* get_task made by the caller of the last call, right after it, for task id
ReadBack(id) == get_task(backend, tasks, last.user, id)

\* the system-assigned part of the round trip: the task read back is the task
\* create_task returned, it is the caller's, and status, priority and due date
\* are the request's
CreatedTaskReadBack ==
    /\ ReadBack(last.res.val.id).ok
    /\ ReadBack(last.res.val.id).val = last.res.val
    /\ ReadBack(last.res.val.id).val.user_id = last.user
    /\ ReadBack(last.res.val.id).val.status = last.arg.status
    /\ ReadBack(last.res.val.id).val.priority = last.arg.priority
    /\ ReadBack(last.res.val.id).val.due_date = last.arg.due_date

UpdateOfForeignTask ==
    /\ last.op = "update_task"
    /\ last.arg[1] \in DOMAIN last.pre
    /\ last.pre[last.arg[1]].user_id /= last.user

\* what the same update_task returns when no task has the id
UpdateOfMissingTask ==
    update_task(backend, EmptyStore, last.user, last.arg[1], last.arg[2], now).res

\* C19 as stated: update_task on a task that exists but is another user's
\* fails with TaskNotFound, the outcome for an id that does not exist, never
\* AccessDenied, and leaves the store unchanged.
C19_ForeignUpdateIsTaskNotFound ==
    UpdateOfForeignTask =>
        /\ ~last.res.ok
        /\ last.res.err = TaskNotFound
        /\ last.res = UpdateOfMissingTask
        /\ tasks = last.pre

\* C19: update_task on a task that exists but is another user's fails with the
\* outcome the same request has for an id that does not exist, which is never
\* AccessDenied and is TaskNotFound when the request passes validation and the
\* due-date rule; the store is left unchanged.
C19_ForeignUpdateAsMissing ==
    UpdateOfForeignTask =>
        /\ ~last.res.ok
        /\ last.res.err.kind /= AccessDenied.kind
        /\ last.res = UpdateOfMissingTask
        /\ (/\ UpdateTaskRequest_validate(last.arg[2])
            /\ ~due_date_rejected(last.arg[2].due_date, now)) =>
                last.res.err = TaskNotFound
        /\ tasks = last.pre

\* C19 witness: a valid update of another user's task was refused as not found.
C19_Witness ==
    /\ UpdateOfForeignTask
    /\ UpdateTaskRequest_validate(last.arg[2])
    /\ ~due_date_rejected(last.arg[2].due_date, now)
    /\ IsSome(last.arg[2].title)
    /\ ~last.res.ok
    /\ tasks = last.pre

\* the last call was a delete_task of a task that existed and was the caller's
DeleteOfOwnTask ==
    /\ last.arg \in DOMAIN last.pre
    /\ last.pre[last.arg].user_id = last.user

\* C20: delete_task returns true exactly when the task exists and is the
\* caller's, and then removes that task and no other; otherwise it returns
\* false and leaves the store unchanged, for a missing id and for another
\* user's task alike; the same delete_task made again returns false.
C20_DeleteTaskOwnedOnly ==
    last.op = "delete_task" =>
        /\ last.res.ok
        /\ last.res.val = DeleteOfOwnTask
        /\ DeleteOfOwnTask =>
              /\ DOMAIN tasks = DOMAIN last.pre \ {last.arg}
              /\ \A j \in DOMAIN tasks : tasks[j] = last.pre[j]
        /\ ~DeleteOfOwnTask => tasks = last.pre
        /\ last.res.val =>
              /\ delete_task(backend, tasks, last.user, last.arg).res = Ok(FALSE)
              /\ delete_task(backend, tasks, last.user, last.arg).tasks = tasks

\* C20 witness: a user deleted one of two stored tasks, the other task being
\* another user's, and that one stayed.
C20_Witness ==
    /\ last.op = "delete_task"
    /\ last.res.ok /\ last.res.val
    /\ \E j \in DOMAIN tasks : tasks[j].user_id /= last.user

\* the last call was validate_token on an access token that login or
\* refresh_token had handed out
ValidatedAccessToken ==
    /\ last.op = "validate_token"
    /\ last.arg \in last.pre.issued
    /\ ~IsRefreshToken(last.arg)

\* the stored users the token's subject names (at most one)
SubjectOf(token, us) == {i \in DOMAIN us : Uuid_to_string(i) = token.sub}

\* C21: validate_token on an access token minted for user U returns U's current
\* record from the users table, not the claims; it rejects the token when the
\* signature does not verify or exp is before now, does not succeed when U is
\* no longer stored, and succeeds otherwise (database reachable).
C21_ValidateTokenReturnsCurrentUser ==
    ValidatedAccessToken =>
        /\ last.res.ok =>
              \E i \in SubjectOf(last.arg, users) : last.res.val = to_response(users[i])
        /\ last.arg.sig /= jwt_secret =>
              ~last.res.ok /\ last.res.err.kind = InvalidToken.kind
        /\ last.arg.exp < now =>
              ~last.res.ok /\ last.res.err.kind = InvalidToken.kind
        /\ SubjectOf(last.arg, users) = {} => ~last.res.ok
        /\ (/\ ~last.db
            /\ last.arg.sig = jwt_secret
            /\ last.arg.exp >= now
            /\ SubjectOf(last.arg, users) /= {}) => last.res.ok

\* C21 witness: the user's email was changed after the token was minted, and
\* validate_token returned the new email.
C21_Witness ==
    /\ ValidatedAccessToken
    /\ last.res.ok
    /\ last.res.val.email /= last.arg.email

\* id, owner and creation time of task b are those of task a
SameIdentity(a, b) ==
    /\ b.id = a.id
    /\ b.user_id = a.user_id
    /\ b.created_at = a.created_at

\* C22: no step changes the user_id, the id or created_at of a task: not in the
\* store (update_task, complete_task, bulk_update_status and every other
\* handler), and not on a Task object (update, complete, uncomplete,
\* set_in_process), which only Task::new replaces.
C22_OwnershipImmutable ==
    [][/\ \A i \in DOMAIN tasks \cap DOMAIN tasks' :
             /\ SameIdentity(tasks[i], tasks'[i])
             /\ tasks'[i].id = i
       /\ (IsSome(task) /\ IsSome(task') /\ last'.op /= "Task::new") =>
             SameIdentity(Unwrap(task), Unwrap(task'))]_vars

\* C22 witness: a stored task has been changed by its owner at a later time
\* than it was created, through update_task, complete_task or
\* bulk_update_status.
C22_Witness ==
    /\ last.op \in {"update_task", "complete_task", "bulk_update_status"}
    /\ \E i \in DOMAIN tasks \cap DOMAIN last.pre :
          /\ tasks[i] /= last.pre[i]
          /\ tasks[i].updated_at /= tasks[i].created_at
          /\ tasks[i].user_id = last.user

\* the ids of the tasks of the caller of the last call
OwnIds == {i \in DOMAIN tasks : tasks[i].user_id = last.user}

OwnIdsWithStatus(status) == {i \in OwnIds : tasks[i].status = status}

\* the caller's tasks due strictly before now and not completed
OwnOverdueIds ==
    {i \in OwnIds : /\ tasks[i].due_date /= None
                    /\ Unwrap(tasks[i].due_date) < now
                    /\ tasks[i].status /= Completed}

\* C23: get_task_statistics counts all and only the caller's tasks: total_tasks
\* is their number and the sum of the three status counts, each status count is
\* the number of the caller's tasks in that status, and overdue_tasks is the
\* number of the caller's tasks due strictly before now and not Completed, so
\* at most pending_tasks + in_progress_tasks.
C23_StatisticsCountOwnTasks ==
    last.op = "get_task_statistics" =>
        /\ last.res.ok
        /\ last.res.val.total_tasks = Cardinality(OwnIds)
        /\ last.res.val.pending_tasks = Cardinality(OwnIdsWithStatus(Pending))
        /\ last.res.val.in_progress_tasks = Cardinality(OwnIdsWithStatus(InProgress))
        /\ last.res.val.completed_tasks = Cardinality(OwnIdsWithStatus(Completed))
        /\ last.res.val.total_tasks =
              last.res.val.pending_tasks + last.res.val.in_progress_tasks
                 + last.res.val.completed_tasks
        /\ last.res.val.overdue_tasks = Cardinality(OwnOverdueIds)
        /\ last.res.val.overdue_tasks <=
              last.res.val.pending_tasks + last.res.val.in_progress_tasks

\* C23 witness: statistics taken while the caller has a completed task past its
\* due date and another user has a task too.
C23_Witness ==
    /\ last.op = "get_task_statistics"
    /\ \E i \in OwnIds : /\ tasks[i].status = Completed
                         /\ tasks[i].due_date /= None
                         /\ Unwrap(tasks[i].due_date) < now
    /\ \E i \in DOMAIN tasks : i \notin OwnIds
    /\ last.res.val.total_tasks = 1



\* what update_task with only status Completed returns from the store the last
\* call found
UpdateToCompleted ==
    update_task(backend, last.pre, last.user, last.arg, StatusOnly(Completed), now)

\* complete_task and that update_task agree on the result and on the store
CompleteTaskAsUpdateTask ==
    last.op = "complete_task" =>
        /\ last.res = UpdateToCompleted.res
        /\ tasks = UpdateToCompleted.tasks

\* C24 as stated: complete_task(owner, id) and update_task(owner, id, {status:
\* Completed}) return the same result from the same store and leave the same
\* store; the result is the task with status Completed and completed_at set,
\* or TaskNotFound when the id does not exist or is not the owner's.
C24_CompleteIsUpdateSugar ==
    /\ CompleteTaskAsUpdateTask
    /\ last.op = "complete_task" =>
          IF last.arg \in DOMAIN last.pre /\ last.pre[last.arg].user_id = last.user
          THEN /\ last.res.ok
               /\ last.res.val.status = Completed
               /\ last.res.val.completed_at /= None
          ELSE ~last.res.ok /\ last.res.err = TaskNotFound

UpdatableFields == {"title", "description", "status", "priority", "due_date"}

\* a request that carries a status and nothing else leaves these alone
StatusOnlyFrame == {"title", "description", "priority", "due_date"}

\* C25 as stated: a partial update overwrites field by field: every field absent
\* from the request keeps its value under Task::update, and the status-only
\* updates of complete_task and bulk_update_status leave title, description,
\* priority and due_date of every stored task as they were.
C25_AbsentFieldsKeepValue ==
    /\ last.op = "Task::update" =>
          \A f \in UpdatableFields :
              last.arg[f] = None => Unwrap(task)[f] = Unwrap(last.pre)[f]
    /\ (last.op \in {"complete_task", "bulk_update_status"} /\ last.res.ok) =>
          \A i \in DOMAIN tasks :
              \A f \in StatusOnlyFrame : tasks[i][f] = last.pre[i][f]

\* one of the five fields of b differs from a's
FieldsChanged(a, b) == \E f \in UpdatableFields : b[f] /= a[f]

\* every field the request carries has the task's current value
PresentFieldsEqual(request, self) ==
    \A f \in {"title", "status", "priority"} :
        request[f] /= None => Unwrap(request[f]) = self[f]

PresentOptionalFieldsEqual(request, self) ==
    \A f \in {"description", "due_date"} :
        request[f] /= None => request[f] = self[f]

\* the request carries a blank title and nothing else
OnlyBlankTitle(request) ==
    /\ request.title /= None
    /\ trim(Unwrap(request.title)) = <<>>
    /\ \A f \in UpdatableFields \ {"title"} : request[f] = None

\* Task::update sets updated_at exactly when one of the five fields changed
UpdatedAtIffFieldsChanged ==
    last.op = "Task::update" =>
        IF FieldsChanged(Unwrap(last.pre), Unwrap(task))
        THEN Unwrap(task).updated_at = now
        ELSE task = last.pre

\* C26 as stated: Task::update changes updated_at if and only if one of title,
\* description, status, priority, due_date changed value; a request whose
\* present fields all equal the task's values, or that only carries a blank
\* title, leaves the whole task unchanged.
C26_UpdatedAtOnlyOnChange ==
    /\ UpdatedAtIffFieldsChanged
    /\ (/\ last.op = "Task::update"
        /\ \/ /\ PresentFieldsEqual(last.arg, Unwrap(last.pre))
              /\ PresentOptionalFieldsEqual(last.arg, Unwrap(last.pre))
           \/ OnlyBlankTitle(last.arg)) => task = last.pre

\* the Task object before and after the last call
Before == Unwrap(last.pre)

After == Unwrap(task)

\* C27: complete changes a task only when it is Pending (to Completed, setting
\* completed_at), uncomplete only when it is Completed (to Pending, clearing
\* completed_at), set_in_process only when it is Pending (to InProgress); in any
\* other status the helper leaves every field unchanged and reports no error,
\* so none of the three moves an InProgress task.
C27_TransitionHelpersGuarded ==
    /\ last.op = "Task::complete" =>
          /\ last.res.ok
          /\ After = (IF Before.status = Pending
                      THEN [Before EXCEPT !.status = Completed,
                                          !.completed_at = Some(now),
                                          !.updated_at = now]
                      ELSE Before)
    /\ last.op = "Task::uncomplete" =>
          /\ last.res.ok
          /\ After = (IF Before.status = Completed
                      THEN [Before EXCEPT !.status = Pending,
                                          !.completed_at = None,
                                          !.updated_at = now]
                      ELSE Before)
    /\ last.op = "Task::set_in_process" =>
          /\ last.res.ok
          /\ After = (IF Before.status = Pending
                      THEN [Before EXCEPT !.status = InProgress, !.updated_at = now]
                      ELSE Before)
    /\ (/\ last.op \in {"Task::complete", "Task::uncomplete", "Task::set_in_process"}
        /\ Before.status = InProgress) => After = Before

\* C27 witness: complete was called, at a later time than the last change, on
\* a task in progress, and nothing changed.
C27_Witness ==
    /\ last.op = "Task::complete"
    /\ Before.status = InProgress
    /\ Before.updated_at /= now
    /\ After = Before

OverdueOnly == Filter(None, None, TRUE, None)

OverdueWithPriority(priority) == Filter(None, Some(priority), TRUE, None)

\* C28 as stated: a task of the owner is returned by get_tasks with the filter
\* {overdue_only} (fast path) if and only if it is returned by get_tasks with
\* {overdue_only, priority: the task's priority} (in-memory path).
C28_OverduePathsAgree ==
    (last.op = "get_tasks" /\ last.arg = OverdueOnly) =>
        \A x \in OwnedBy(tasks, last.user) :
            x \in ResultTasks(last) <=>
                x \in get_tasks(backend, tasks, last.user,
                                OverdueWithPriority(x.priority), now).val

\* the ids of a bulk call
IdsOf(ids) == {ids[k] : k \in 1..Len(ids)}

\* the ids of the call that name a task of the caller in the store it found
DeletableIds ==
    {i \in IdsOf(last.arg) : i \in DOMAIN last.pre /\ last.pre[i].user_id = last.user}

\* C29: bulk_delete_tasks removes exactly the listed tasks that exist and are
\* the caller's and leaves the others as they were; it returns Ok(n) with n the
\* number of tasks removed, Ok(0) for no ids, and fails, with
\* BulkOperationPartialFailure and failed_count = total_count, exactly when ids
\* were given and nothing was removed.
C29_BulkDeleteCountsRemoved ==
    last.op = "bulk_delete_tasks" =>
        /\ DOMAIN tasks = DOMAIN last.pre \ DeletableIds
        /\ \A i \in DOMAIN tasks : tasks[i] = last.pre[i]
        /\ last.res.ok => last.res.val = Cardinality(DOMAIN last.pre \ DOMAIN tasks)
        /\ ~last.res.ok <=> (last.arg /= <<>> /\ DOMAIN tasks = DOMAIN last.pre)
        /\ ~last.res.ok =>
              last.res.err = BulkOperationPartialFailure(Len(last.arg), Len(last.arg))
        /\ last.arg = <<>> => (last.res.ok /\ last.res.val = 0)

\* C29 witness: of two ids one named the caller's task and one did not, or
\* repeated it, and the call returned Ok(1).
C29_Witness ==
    /\ last.op = "bulk_delete_tasks"
    /\ Len(last.arg) = 2
    /\ last.res.ok /\ last.res.val = 1
    /\ tasks /= EmptyStore



\* C30: nothing orders the load, validate, save sequence of
\* get_current_session against another process: when its save_session
\* succeeds the session it loaded is on disk again with last_accessed bumped,
\* also when a logout of another process has removed the file, and returned
\* successfully, after the load.
C30_SaveRecreatesSession ==
    (last.op = "save_session" /\ last.res.ok) =>
        /\ HasSession(files)
        /\ StoredSession(files) = last.arg[2]

\* C30 witness: a logout in another process removed the session file between
\* the load and the save, and after the save a session is on disk.
C30_Witness ==
    /\ last.op = "save_session" /\ last.res.ok
    /\ cli[last.arg[1]].overtaken
    /\ ~exists(last.pre.files, SESSION_FILE)
    /\ HasSession(files)



\* the last step ended a register call that had passed check_user_uniqueness
RegisterEndedInStore ==
    /\ last.op = "register"
    /\ Len(last.steps) >= 2

\* C31: register calls running side by side can both pass
\* check_user_uniqueness and both reach the store; no two stored users share a
\* username or an email all the same, because the store refuses the second
\* insert, and that refusal reaches the caller as a RepositoryError, not as
\* UsernameExists or EmailExists.
C31_ConcurrentRegisterRejectedByStore ==
    /\ \A i, j \in DOMAIN users :
          i /= j => /\ users[i].username /= users[j].username
                    /\ users[i].email /= users[j].email
    /\ (RegisterEndedInStore /\ ~last.res.ok) =>
          /\ last.res.err.kind = UserServiceError_RepositoryError(<<>>).kind
          /\ \/ UsernameTaken(users, last.arg[2].username)
             \/ EmailTaken(users, last.arg[2].email)
          /\ users = last.pre.users

\* C31 witness: a register call passed check_user_uniqueness and the store's
\* own checks while the other call had not inserted yet, and its INSERT was
\* refused: the caller got RepositoryError(DatabaseError).
C31_Witness ==
    /\ last.op = "register"
    /\ last.steps = <<"check_user_uniqueness", "store", "insert">>
    /\ ~last.res.ok
    /\ last.res.err.cause = UserRepositoryError_DatabaseError
    /\ UsernameTaken(users, last.arg[2].username)



\* C32: get_current_session never hands a failure to its caller: whatever goes
\* wrong (no file, unparsable file, expired session, invalid stored token, the
\* session file cannot be removed, the session cannot be saved again), the
\* result is Ok(none), never an error.
C32_NeverSurfacesFailure ==
    last.op = "get_current_session" => last.res.ok

\* C33: whenever get_current_session returns none, no session file is left
\* behind, whatever made the session unusable, an unparsable file included.
C33_NoneLeavesNoSessionFile ==
    (last.op = "get_current_session" /\ last.res.ok /\ last.res.val = None) =>
        ~exists(files, SESSION_FILE)

\* C34: a get_current_session call that returns a user changes nothing in the
\* stored session but last_accessed, which becomes the current time, never
\* earlier than its previous value or than created_at; user_id, username,
\* email, token, refresh_token, created_at and expires_at stay as they were.
C34_ReaccessTouchesOnlyLastAccessed ==
    (last.op = "get_current_session" /\ last.res.ok /\ IsSome(last.res.val)) =>
        /\ HasSession(last.pre.files)
        /\ HasSession(files)
        /\ StoredSession(files) =
             [StoredSession(last.pre.files) EXCEPT !.last_accessed = now]
        /\ StoredSession(files).last_accessed >= StoredSession(last.pre.files).last_accessed
        /\ StoredSession(files).last_accessed >= StoredSession(files).created_at

\* C34 witness: a session created at hour 0 is read at a later hour and the
\* user is returned; last_accessed moved, expires_at did not.
C34_Witness ==
    /\ last.op = "get_current_session"
    /\ last.res.ok /\ IsSome(last.res.val)
    /\ StoredSession(files).last_accessed > StoredSession(last.pre.files).last_accessed
    /\ StoredSession(files).expires_at = StoredSession(last.pre.files).expires_at

\* the stored session's expiry and tokens fit together
SessionWellFormed(session) ==
    /\ session.expires_at = session.refresh_token.exp
    /\ session.refresh_token.exp =
         session.refresh_token.iat + Duration_days(REFRESH_TOKEN_EXPIRY_DAYS)
    /\ session.token.exp = session.token.iat + Duration_hours(TOKEN_EXPIRY_HOURS)
    /\ session.token.iat = session.refresh_token.iat
    /\ session.token.sub = Uuid_to_string(session.user_id)
    /\ session.refresh_token.sub = Uuid_to_string(session.user_id)

\* C35: in every session written by login or refresh_token, expires_at is the
\* refresh token's exp, 30 days after the issue time, the access token's exp is
\* 24 hours after the issue time, and both tokens have the session's user_id as
\* subject; a successful refresh_token keeps user_id, username, email and
\* created_at, and replaces token, refresh_token, expires_at and last_accessed.
C35_SessionMatchesItsTokens ==
    /\ HasSession(files) => SessionWellFormed(StoredSession(files))
    /\ (last.op \in {"login", "refresh_token"} /\ last.res.ok) =>
          /\ HasSession(files)
          /\ StoredSession(files).token = last.res.val.token
          /\ StoredSession(files).refresh_token = last.res.val.refresh_token
          /\ StoredSession(files).token.iat = now
          /\ StoredSession(files).expires_at = now + Duration_days(REFRESH_TOKEN_EXPIRY_DAYS)
          /\ StoredSession(files).last_accessed = now
    /\ (last.op = "refresh_token" /\ last.res.ok) =>
          LET old == StoredSession(last.pre.files)
              new == StoredSession(files)
          IN  /\ new.user_id = old.user_id
              /\ new.username = old.username
              /\ new.email = old.email
              /\ new.created_at = old.created_at
              /\ new.token /= old.token
              /\ new.refresh_token /= old.refresh_token
              /\ new = [old EXCEPT !.token = last.res.val.token,
                                   !.refresh_token = last.res.val.refresh_token,
                                   !.expires_at = last.res.val.expires_at,
                                   !.last_accessed = now]

\* C35 witness: a session created at hour 0 is refreshed at a later hour; it
\* keeps its created_at and gets a later expires_at.
C35_Witness ==
    /\ last.op = "refresh_token"
    /\ last.res.ok
    /\ StoredSession(files).created_at = 0
    /\ StoredSession(files).created_at < now
    /\ StoredSession(files).expires_at > StoredSession(last.pre.files).expires_at
    /\ StoredSession(files).refresh_token.sub = Uuid_to_string(StoredSession(files).user_id)

\* a call that reads the session while it is unexpired, its user exists and
\* the secret is the one its tokens were signed with
SessionReadBeforeExpiry(call, t) ==
    /\ call.op \in {"get_current_session", "get_current_user"}
    /\ NoFault(call)
    /\ HasSession(call.pre.files)
    /\ StoredSession(call.pre.files).token.sig = call.pre.jwt_secret
    /\ StoredSession(call.pre.files).expires_at > t
    /\ StoredSession(call.pre.files).user_id \in DOMAIN call.pre.users

\* refresh_token, given the refresh token the session held before the call,
\* would succeed on the session directory as it is now
RefreshStillSucceeds(call, fs, key, n, t) ==
    refresh_token(fs, key, StoredSession(call.pre.files).refresh_token, n, t, FALSE).res.ok

LoginFailedInAuthentication(call) ==
    /\ call.op = "login"
    /\ ~call.res.ok
    /\ call.res.err.kind \in {AuthenticationFailed.kind,
                              AuthServiceError_UserServiceError(<<>>).kind}

\* C37: a login that fails in authentication (AuthenticationFailed or any
\* other error of the user service) leaves the session file exactly as it was,
\* whether it held a session of the same user, of another user or none; a
\* login that changed the session file succeeded and stored the session it
\* returned.
C37_FailedLoginKeepsSession ==
    /\ LoginFailedInAuthentication(last) => files = last.pre.files
    /\ (last.op = "login" /\ ~last.io /\ files /= last.pre.files) =>
          /\ last.res.ok
          /\ HasSession(files)
          /\ StoredSession(files).token = last.res.val.token
          /\ StoredSession(files).user_id = last.res.val.user.id

\* C37 witness: while another user's session is stored, a login under a
\* registered username with a wrong password fails and the session file is the
\* one found.
C37_Witness ==
    /\ LoginFailedInAuthentication(last)
    /\ ~last.db
    /\ HasSession(last.pre.files)
    /\ UsernameTaken(last.pre.users, last.arg[1])
    /\ StoredSession(last.pre.files).username /= last.arg[1]
    /\ HasSession(files)
    /\ StoredSession(files) = StoredSession(last.pre.files)

\* C38: after any sequence of create_task and update_task calls every stored
\* task has a title that is non-blank after trimming and 1 to 255 characters
\* long; an update whose title is empty or only whitespace never leaves a
\* blank title in the store.
C38_StoredTitlesNonBlank ==
    \A id \in DOMAIN tasks :
        /\ trim(tasks[id].title) /= <<>>
        /\ Len(tasks[id].title) >= 1
        /\ Len(tasks[id].title) <= TITLE_MAX

\* the rows an identifier resolves to: those with that username, and only if
\* there is none, those with that email
ResolvedBy(us, identifier) ==
    LET by_name == {i \in DOMAIN us : us[i].username = identifier}
        by_email == {i \in DOMAIN us : us[i].email = identifier}
    IN  IF by_name /= {} THEN by_name ELSE by_email

\* C39: login resolves the identifier against usernames first and against
\* emails only if no username matches: with the database and the file system
\* working and non-empty credentials, login succeeds exactly when the user so
\* resolved has that password, by username or by email alike, and returns that
\* user; a wrong password for the user resolved by username fails with
\* AuthenticationFailed.
C39_LoginResolvesUsernameThenEmail ==
    (/\ last.op = "login"
     /\ NoFault(last)
     /\ last.arg[1] /= <<>>
     /\ last.arg[2] /= <<>>) =>
        LET us == last.pre.users
            found == ResolvedBy(us, last.arg[1])
        IN  /\ Cardinality(found) <= 1
            /\ last.res.ok <=> \E i \in found : verify_password(us[i], last.arg[2])
            /\ last.res.ok => \E i \in found : last.res.val.user = to_response(us[i])
            /\ ~last.res.ok => last.res.err = AuthenticationFailed

\* C39 witness: a login under the email of a registered user, which is no
\* user's username, succeeded and returned that user.
C39_Witness ==
    /\ last.op = "login"
    /\ last.res.ok
    /\ ~UsernameTaken(last.pre.users, last.arg[1])
    /\ EmailTaken(last.pre.users, last.arg[1])
    /\ last.res.val.user.email = last.arg[1]

\* passwords tried against a freshly registered account: the inputs of the
\* model and the stored hash itself
TriedPasswords(us) ==
    {Pw_1, Pw_2, Pw_short, Pw_letters} \cup {us[i].password_hash : i \in DOMAIN us}

=============================================================================
